---- MODULE Spec2Model ----
(***************************************************************************)
(* Model of go-mcp-file-context-server: the content cache (pkg/cache), the *)
(* access guard (validatePath and helpers in main.go) and the tool         *)
(* handlers that compose them over the filesystem.                         *)
(*                                                                         *)
(* Strings are sequences of one-character strings, so that prefix tests,   *)
(* splitting at the separator and glob matching are computed, not assumed. *)
(***************************************************************************)
EXTENDS Integers, Sequences, FiniteSets, TLC

VARIABLES
    \* ---- pkg/cache: Cache and the LRU it wraps ----
    lruItems,    \* c.lru: sequence of [key, value], front (index 1) = most recent
    maxSize,     \* the size given to NewCache
    hits,        \* c.hits
    misses,      \* c.misses
    evictions,   \* c.evictions
    mu,          \* c.mu: the goroutine holding the write lock, or 0
    muReaders,   \* c.mu: the goroutines holding a read lock
    pc,          \* per goroutine: position inside the cache method it runs
    arg,         \* per goroutine: arguments of the running call
    ret,         \* per goroutine: result of its last completed call
    cbLeft,      \* per goroutine: eviction callbacks still to run
    now,         \* wall clock (time.Now)
    calls,       \* number of calls started (bounds the run)
    recency,     \* history: keys by last successful Get/Set, most recent first
    getsDone,    \* history: Get calls that returned since NewCache or the last reset
    snap,        \* per goroutine: the Stats value its last Stats call returned
    reg,         \* per goroutine: the counter value read by its c.hits++ or c.misses++
    \* ---- access guard (validatePath) ----
    gPhase,      \* "off", "input" (arguments chosen) or "done" (validatePath returned)
    gCwd,        \* the process working directory (os.Getwd)
    gPath,       \* the raw path argument
    gRoots,      \* allowedRootDirs
    gPatterns,   \* blockedPatterns
    gResult,     \* what validatePath returned (in the server, whose configuration
                 \* is fixed at startup: what it returns for each path of the tree)
    \* ---- tool handlers over the filesystem ----
    fs,          \* the filesystem: path -> file record
    req,         \* the tool call being served (name and arguments)
    resp,        \* the result of that tool call
    prevCached,  \* history: per path, what was cached when a tool last changed the file
    accessed,    \* history: files whose content the call returned, searched, copied or moved
    \* ---- main: configuration ----
    cmdline,     \* per setting: whether the flag is on the command line, and its value
    environ,     \* per setting: whether the environment variable is set, and its value
    config,      \* per setting: the resolved value and its source, once main resolved it
    \* ---- package analysis: chunks ----
    chunk,       \* a file, a chunk size, and the outcome of the call made with them
    \* ---- Cache.Stats(true) ----
    detail,      \* the keys still to peek and the EntryStats records built so far
    \* ---- mcp.Server.Run ----
    stdio        \* stdin, the reader goroutine, the main loop of Run and stdout

cacheVars == <<lruItems, maxSize, hits, misses, evictions, mu, muReaders,
               pc, arg, ret, cbLeft, now, calls, recency, getsDone, snap, reg>>
guardVars == <<gPhase, gCwd, gPath, gRoots, gPatterns, gResult>>
srvVars   == <<fs, req, resp, prevCached, accessed>>
cfgVars   == <<cmdline, environ, config>>
auxVars   == <<cfgVars, chunk, detail, stdio>>
vars      == <<cacheVars, guardVars, srvVars, auxVars>>

-----------------------------------------------------------------------------
(* Bounds *)
NumThreads == 2
NumKeys    == 3
MaxCap     == 2
MaxTime    == 2
MaxCalls   == 4
TTL        == 1

Threads == 1..NumThreads
Keys    == 1..NumKeys
Times   == 0..MaxTime

NoArg == [key |-> 0, mod |-> 0]

-----------------------------------------------------------------------------
(* Sequence helpers *)
RECURSIVE SeqKeys(_)
SeqKeys(items) ==
    IF items = <<>> THEN {} ELSE {Head(items).key} \cup SeqKeys(Tail(items))

RemoveAt(s, i) == SubSeq(s, 1, i - 1) \o SubSeq(s, i + 1, Len(s))

-----------------------------------------------------------------------------
(* The LRU list of hashicorp/golang-lru/v2 as the cache uses it *)

\* Entry{Content, Size, ModifiedTime, CachedAt, Hits}
Entry(content, size, mod, cachedAt, h) ==
    [content |-> content, size |-> size, mod |-> mod, cachedAt |-> cachedAt, hits |-> h]

LruIndex(items, k) ==
    IF \E i \in 1..Len(items) : items[i].key = k
    THEN CHOOSE i \in 1..Len(items) : items[i].key = k
    ELSE 0

LruContains(items, k) == LruIndex(items, k) # 0

\* lru.Peek: the value, recency untouched
LruPeek(items, k) == items[LruIndex(items, k)].value

\* lru.Get on a present key: the entry moves to the front
LruGetNoPromote(items, k) == items
LruGet(items, k) ==
    LET i == LruIndex(items, k)
    IN  <<items[i]>> \o RemoveAt(items, i)

\* lru.Remove
LruRemove(items, k) ==
    LET i == LruIndex(items, k)
    IN  IF i = 0 THEN items ELSE RemoveAt(items, i)

\* lru.Add: replace and promote an existing key, else push front and drop the
\* oldest entry when the size is exceeded
LruAddNoEvict(items, size, k, v) ==
    IF LruContains(items, k)
    THEN [items |-> <<[key |-> k, value |-> v]>> \o LruRemove(items, k),
          evicted |-> FALSE, victim |-> 0]
    ELSE [items |-> <<[key |-> k, value |-> v]>> \o items,
          evicted |-> FALSE, victim |-> 0]
LruAdd(items, size, k, v) ==
    IF LruContains(items, k)
    THEN [items |-> <<[key |-> k, value |-> v]>> \o LruRemove(items, k),
          evicted |-> FALSE, victim |-> 0]
    ELSE LET pushed == <<[key |-> k, value |-> v]>> \o items
         IN  IF Len(pushed) > size
             THEN [items |-> SubSeq(pushed, 1, Len(pushed) - 1),
                   evicted |-> TRUE, victim |-> pushed[Len(pushed)].key]
             ELSE [items |-> pushed, evicted |-> FALSE, victim |-> 0]

\* Get on a fresh entry: entry.Hits++
HitsNotCounted(e) == e
CountHit(e) == [e EXCEPT !.hits = e.hits + 1]

\* history: k becomes the most recently used key
Touch(rec, k) == <<k>> \o SelectSeq(rec, LAMBDA x : x # k)

\* time.Since(entry.CachedAt) > c.ttl
Expired(e, t) == t - e.cachedAt > TTL

\* Cache.Get as one call: "miss", "hit" (entry promoted, its Hits counted) or
\* "deadlock" (the entry is expired: Get, holding c.mu, removes it and the
\* eviction callback blocks on c.mu)
CacheGet(items, key, t) ==
    IF ~LruContains(items, key) THEN [outcome |-> "miss", items |-> items]
    ELSE LET promoted == LruGet(items, key)
             e == LruPeek(items, key)
         IN  IF Expired(e, t)
             THEN [outcome |-> "deadlock", items |-> LruRemove(promoted, key)]
             ELSE [outcome |-> "hit",
                   items |-> [promoted EXCEPT ![1].value = CountHit(e)]]

MuFree == mu = 0 /\ muReaders = {}

-----------------------------------------------------------------------------
(* pkg/cache: one action per step of a Cache method between the points     *)
(* where it takes or releases c.mu or enters the LRU (the LRU serialises   *)
(* its own calls with its own lock and runs the eviction callback after    *)
(* releasing it).                                                          *)

CacheIdle(t) == pc[t] = "idle" /\ calls < MaxCalls

Begin(t, label, a) ==
    /\ CacheIdle(t)
    /\ pc' = [pc EXCEPT ![t] = label]
    /\ arg' = [arg EXCEPT ![t] = a]
    /\ ret' = [ret EXCEPT ![t] = "none"]
    /\ calls' = calls + 1

Return(t, r) ==
    /\ pc' = [pc EXCEPT ![t] = "idle"]
    /\ arg' = [arg EXCEPT ![t] = NoArg]
    /\ ret' = [ret EXCEPT ![t] = r]

\* Get: c.mu.Lock()
GetLockWithoutMutex(t) ==
    /\ \E k \in Keys :
          /\ Begin(t, "get_lookup", [key |-> k, mod |-> 0])
    /\ UNCHANGED <<lruItems, maxSize, hits, misses, evictions, mu, muReaders,
                   cbLeft, now, recency>>
    /\ UNCHANGED <<getsDone, snap, reg, guardVars, srvVars, auxVars>>
GetLock(t) ==
    /\ \E k \in Keys :
          /\ Begin(t, "get_lookup", [key |-> k, mod |-> 0])
    /\ MuFree
    /\ mu' = t
    /\ UNCHANGED <<lruItems, maxSize, hits, misses, evictions, muReaders,
                   cbLeft, now, recency>>
    /\ UNCHANGED <<getsDone, snap, reg, guardVars, srvVars, auxVars>>

\* Get: c.lru.Get(key), the TTL check and entry.Hits++; the increment of
\* c.misses or c.hits that follows starts by reading the counter
GetLookup(t) ==
    /\ pc[t] = "get_lookup"
    /\ LET k == arg[t].key IN
       IF ~LruContains(lruItems, k)
       THEN /\ pc' = [pc EXCEPT ![t] = "get_miss"]
            /\ reg' = [reg EXCEPT ![t] = misses]
            /\ UNCHANGED <<lruItems, recency>>
       ELSE LET promoted == LruGet(lruItems, k)
                e == LruPeek(lruItems, k)
            IN  IF Expired(e, now)
                THEN /\ lruItems' = promoted
                     /\ pc' = [pc EXCEPT ![t] = "get_expired"]
                     /\ UNCHANGED <<recency, reg>>
                ELSE /\ lruItems' = [promoted EXCEPT ![1].value = CountHit(e)]
                     /\ recency' = Touch(recency, k)
                     /\ pc' = [pc EXCEPT ![t] = "get_hit"]
                     /\ reg' = [reg EXCEPT ![t] = hits]
    /\ UNCHANGED <<maxSize, hits, misses, evictions, mu, muReaders, arg, ret,
                   cbLeft, now, calls, getsDone>>
    /\ UNCHANGED <<snap, guardVars, srvVars, auxVars>>

\* Get: c.hits++ writes the counter; return entry, true (the deferred
\* c.mu.Unlock runs)
GetHit(t) ==
    /\ pc[t] = "get_hit"
    /\ hits' = reg[t] + 1
    /\ reg' = [reg EXCEPT ![t] = 0]
    /\ mu' = 0
    /\ getsDone' = getsDone + 1
    /\ Return(t, "hit")
    /\ UNCHANGED <<lruItems, maxSize, misses, evictions, muReaders, cbLeft, now,
                   calls, recency>>
    /\ UNCHANGED <<snap, guardVars, srvVars, auxVars>>

\* Get: c.lru.Remove(key) of the expired entry; the LRU then calls the
\* eviction callback for a key that was present
GetRemoveExpired(t) ==
    /\ pc[t] = "get_expired"
    /\ LET k == arg[t].key IN
       /\ lruItems' = LruRemove(lruItems, k)
       /\ IF LruContains(lruItems, k)
          THEN /\ pc' = [pc EXCEPT ![t] = "get_cb"]
               /\ cbLeft' = [cbLeft EXCEPT ![t] = 1]
          ELSE /\ pc' = [pc EXCEPT ![t] = "get_miss"]
               /\ UNCHANGED cbLeft
    /\ reg' = [reg EXCEPT ![t] = misses]
    /\ UNCHANGED <<maxSize, hits, misses, evictions, mu, muReaders, arg, ret,
                   now, calls, recency>>
    /\ UNCHANGED <<getsDone, snap, guardVars, srvVars, auxVars>>

\* Get: c.misses++ writes the counter; return nil, false (the deferred
\* c.mu.Unlock runs)
GetMissUncounted(t) ==
    /\ pc[t] = "get_miss"
    /\ reg' = [reg EXCEPT ![t] = 0]
    /\ mu' = 0
    /\ getsDone' = getsDone + 1
    /\ Return(t, "miss")
    /\ UNCHANGED <<lruItems, maxSize, hits, misses, evictions, muReaders, cbLeft,
                   now, calls, recency>>
    /\ UNCHANGED <<snap, guardVars, srvVars, auxVars>>
GetMiss(t) ==
    /\ pc[t] = "get_miss"
    /\ misses' = reg[t] + 1
    /\ reg' = [reg EXCEPT ![t] = 0]
    /\ mu' = 0
    /\ getsDone' = getsDone + 1
    /\ Return(t, "miss")
    /\ UNCHANGED <<lruItems, maxSize, hits, evictions, muReaders, cbLeft, now,
                   calls, recency>>
    /\ UNCHANGED <<snap, guardVars, srvVars, auxVars>>

\* Set stamps the entry it is given and stores it; the other fields,
\* Hits among them, stay as the caller passed them
Stamp(e, t) == [e EXCEPT !.cachedAt = t]

\* the entries callers pass to Set: fresh ones, and ones whose Hits is not 0
\* (an entry a Get returned before)
MaxEntryHits == 1
SetEntries == { Entry("c", 1, m, 0, h) : m \in 0..1, h \in 0..MaxEntryHits }

\* Set: entry.CachedAt = time.Now(); c.lru.Add(key, entry)
SetAdd(t) ==
    /\ \E k \in Keys, entry \in SetEntries :
          LET r == LruAdd(lruItems, maxSize, k, Stamp(entry, now)) IN
          /\ CacheIdle(t)
          /\ calls' = calls + 1
          /\ lruItems' = r.items
          /\ recency' = Touch(recency, k)
          /\ ret' = [ret EXCEPT ![t] = "none"]
          /\ IF r.evicted
             THEN /\ pc' = [pc EXCEPT ![t] = "set_cb"]
                  /\ arg' = [arg EXCEPT ![t] = [key |-> r.victim, mod |-> 0]]
                  /\ cbLeft' = [cbLeft EXCEPT ![t] = 1]
             ELSE /\ UNCHANGED <<pc, arg, cbLeft>>
    /\ UNCHANGED <<maxSize, hits, misses, evictions, mu, muReaders, now>>
    /\ UNCHANGED <<getsDone, snap, reg, guardVars, srvVars, auxVars>>

\* Remove: c.lru.Remove(key)
Remove(t) ==
    /\ \E k \in Keys :
          /\ CacheIdle(t)
          /\ calls' = calls + 1
          /\ lruItems' = LruRemove(lruItems, k)
          /\ ret' = [ret EXCEPT ![t] = "none"]
          /\ IF LruContains(lruItems, k)
             THEN /\ pc' = [pc EXCEPT ![t] = "remove_cb"]
                  /\ arg' = [arg EXCEPT ![t] = [key |-> k, mod |-> 0]]
                  /\ cbLeft' = [cbLeft EXCEPT ![t] = 1]
             ELSE /\ UNCHANGED <<pc, arg, cbLeft>>
    /\ UNCHANGED <<maxSize, hits, misses, evictions, mu, muReaders, now, recency>>
    /\ UNCHANGED <<getsDone, snap, reg, guardVars, srvVars, auxVars>>

\* Clear: c.lru.Purge(); one callback per purged entry follows
ClearPurge(t) ==
    /\ CacheIdle(t)
    /\ calls' = calls + 1
    /\ lruItems' = <<>>
    /\ ret' = [ret EXCEPT ![t] = "none"]
    /\ arg' = [arg EXCEPT ![t] = NoArg]
    /\ cbLeft' = [cbLeft EXCEPT ![t] = Len(lruItems)]
    /\ pc' = [pc EXCEPT ![t] = IF Len(lruItems) > 0 THEN "clear_cb" ELSE "clear_reset"]
    /\ UNCHANGED <<maxSize, hits, misses, evictions, mu, muReaders, now, recency>>
    /\ UNCHANGED <<getsDone, snap, reg, guardVars, srvVars, auxVars>>

\* Clear: c.mu.Lock(); hits, misses, evictions = 0; c.mu.Unlock()
ClearResetKeepingEvictions(t) ==
    /\ pc[t] = "clear_reset"
    /\ MuFree
    /\ hits' = 0
    /\ misses' = 0
    /\ getsDone' = 0
    /\ Return(t, "ok")
    /\ UNCHANGED <<lruItems, maxSize, evictions, mu, muReaders, cbLeft, now, calls,
                   recency>>
    /\ UNCHANGED <<snap, reg, guardVars, srvVars, auxVars>>
ClearReset(t) ==
    /\ pc[t] = "clear_reset"
    /\ MuFree
    /\ hits' = 0
    /\ misses' = 0
    /\ evictions' = 0
    /\ getsDone' = 0
    /\ Return(t, "ok")
    /\ UNCHANGED <<lruItems, maxSize, mu, muReaders, cbLeft, now, calls, recency>>
    /\ UNCHANGED <<snap, reg, guardVars, srvVars, auxVars>>

\* InvalidateStale: entry, ok := c.lru.Peek(path); ok && ModifiedTime.Before(modTime)
InvalidateStaleOf(t, k, m) ==
    /\ CacheIdle(t)
    /\ calls' = calls + 1
    /\ IF LruContains(lruItems, k) /\ LruPeek(lruItems, k).mod < m
       THEN /\ pc' = [pc EXCEPT ![t] = "inv_remove"]
            /\ arg' = [arg EXCEPT ![t] = [key |-> k, mod |-> m]]
            /\ ret' = [ret EXCEPT ![t] = "none"]
       ELSE /\ ret' = [ret EXCEPT ![t] = "false"]
            /\ UNCHANGED <<pc, arg>>
    /\ UNCHANGED <<lruItems, maxSize, hits, misses, evictions, mu, muReaders,
                   cbLeft, now, recency>>
    /\ UNCHANGED <<getsDone, snap, reg, guardVars, srvVars, auxVars>>

InvalidatePeek(t) == \E k \in Keys, m \in 0..1 : InvalidateStaleOf(t, k, m)

\* InvalidateStale: c.lru.Remove(path); return true
InvalidateRemove(t) ==
    /\ pc[t] = "inv_remove"
    /\ lruItems' = LruRemove(lruItems, arg[t].key)
    /\ IF LruContains(lruItems, arg[t].key)
       THEN /\ pc' = [pc EXCEPT ![t] = "inv_cb"]
            /\ cbLeft' = [cbLeft EXCEPT ![t] = 1]
            /\ UNCHANGED <<arg, ret>>
       ELSE /\ Return(t, "true")
            /\ UNCHANGED cbLeft
    /\ UNCHANGED <<maxSize, hits, misses, evictions, mu, muReaders, now, calls,
                   recency>>
    /\ UNCHANGED <<getsDone, snap, reg, guardVars, srvVars, auxVars>>

\* The callback NewCache registers: c.mu.Lock(); c.evictions++; c.mu.Unlock().
\* It runs on the goroutine whose LRU call removed the entry.
CallbackStates == {"get_cb", "set_cb", "remove_cb", "clear_cb", "inv_cb"}

EvictCallback(t) ==
    /\ pc[t] \in CallbackStates
    /\ MuFree
    /\ evictions' = evictions + 1
    /\ cbLeft' = [cbLeft EXCEPT ![t] = cbLeft[t] - 1]
    /\ IF cbLeft[t] > 1
       THEN UNCHANGED <<pc, arg, ret>>
       ELSE CASE pc[t] = "get_cb"    -> /\ pc' = [pc EXCEPT ![t] = "get_miss"]
                                        /\ UNCHANGED <<arg, ret>>
              [] pc[t] = "clear_cb"  -> /\ pc' = [pc EXCEPT ![t] = "clear_reset"]
                                        /\ UNCHANGED <<arg, ret>>
              [] pc[t] = "inv_cb"    -> Return(t, "true")
              [] OTHER               -> Return(t, "none")
    /\ reg' = IF pc[t] = "get_cb" THEN [reg EXCEPT ![t] = misses] ELSE reg
    /\ UNCHANGED <<lruItems, maxSize, hits, misses, mu, muReaders, now, calls,
                   recency>>
    /\ UNCHANGED <<getsDone, snap, guardVars, srvVars, auxVars>>

\* Stats: c.mu.RLock()
StatsRLock(t) ==
    /\ Begin(t, "stats_read", NoArg)
    /\ mu = 0
    /\ muReaders' = muReaders \cup {t}
    /\ UNCHANGED <<lruItems, maxSize, hits, misses, evictions, mu, cbLeft, now,
                   recency>>
    /\ UNCHANGED <<getsDone, snap, reg, guardVars, srvVars, auxVars>>

\* Stats{Size, MaxSize, Hits, Misses, Evictions}: both sizes are c.lru.Len()
NoStats == [size |-> 0, maxSize |-> 0, hits |-> 0, misses |-> 0, evictions |-> 0]

Stats(items, capacity, h, m, e) ==
    [size |-> Len(items), maxSize |-> Len(items), hits |-> h, misses |-> m,
     evictions |-> e]

\* Stats: build the snapshot; the deferred c.mu.RUnlock runs
StatsRead(t) ==
    /\ pc[t] = "stats_read"
    /\ muReaders' = muReaders \ {t}
    /\ snap' = [snap EXCEPT ![t] = Stats(lruItems, maxSize, hits, misses, evictions)]
    /\ Return(t, "stats")
    /\ UNCHANGED <<lruItems, maxSize, hits, misses, evictions, mu, cbLeft, now,
                   calls, recency>>
    /\ UNCHANGED <<getsDone, reg, guardVars, srvVars, auxVars>>

\* Stats(true): c.mu.RLock()
StatsDetailedRLock(t) ==
    /\ Begin(t, "stats_keys", NoArg)
    /\ mu = 0
    /\ muReaders' = muReaders \cup {t}
    /\ detail' = [keys |-> <<>>, entries |-> <<>>]
    /\ UNCHANGED <<lruItems, maxSize, hits, misses, evictions, mu, cbLeft, now,
                   recency>>
    /\ UNCHANGED <<getsDone, snap, reg, guardVars, srvVars, cfgVars, chunk, stdio>>

\* lru.Keys: the keys from the oldest to the newest
LruKeys(items) == [i \in 1..Len(items) |-> items[Len(items) + 1 - i].key]

\* EntryStats{Path, Size, ModifiedTime, CachedAt, Hits}: copies of the fields
EntryStats(k, e) ==
    [path |-> k, size |-> e.size, mod |-> e.mod, cachedAt |-> e.cachedAt,
     hits |-> e.hits]

\* Stats(true): the Stats literal, then keys := c.lru.Keys()
StatsKeys(t) ==
    /\ pc[t] = "stats_keys"
    /\ snap' = [snap EXCEPT ![t] = Stats(lruItems, maxSize, hits, misses, evictions)]
    /\ detail' = [keys |-> LruKeys(lruItems), entries |-> <<>>]
    /\ pc' = [pc EXCEPT ![t] = "stats_peek"]
    /\ UNCHANGED <<lruItems, maxSize, hits, misses, evictions, mu, muReaders, arg,
                   ret, cbLeft, now, calls, recency>>
    /\ UNCHANGED <<getsDone, reg, guardVars, srvVars, cfgVars, chunk, stdio>>

\* Stats(true): one turn of the loop, c.lru.Peek(key) and the append
StatsPeek(t) ==
    /\ pc[t] = "stats_peek"
    /\ detail.keys # <<>>
    /\ LET key == Head(detail.keys)
       IN  detail' =
             [keys |-> Tail(detail.keys),
              entries |-> IF LruContains(lruItems, key)
                          THEN Append(detail.entries,
                                      EntryStats(key, LruPeek(lruItems, key)))
                          ELSE detail.entries]
    /\ UNCHANGED <<cacheVars, guardVars, srvVars, cfgVars, chunk, stdio>>

\* Stats(true): return stats; the deferred c.mu.RUnlock runs
StatsReturn(t) ==
    /\ pc[t] = "stats_peek"
    /\ detail.keys = <<>>
    /\ muReaders' = muReaders \ {t}
    /\ Return(t, "stats")
    /\ UNCHANGED <<lruItems, maxSize, hits, misses, evictions, mu, cbLeft, now,
                   calls, recency>>
    /\ UNCHANGED <<getsDone, snap, reg, guardVars, srvVars, auxVars>>

\* the caller changes the Stats value it was handed: a record is dropped
\* from its Entries, or the Hits of its first record is overwritten
EditStats(t) ==
    /\ pc[t] = "idle"
    /\ ret[t] = "stats"
    /\ detail.entries # <<>>
    /\ \/ detail' = [detail EXCEPT !.entries = Tail(detail.entries)]
       \/ /\ detail.entries[1].hits # MaxEntryHits + 1
          /\ detail' = [detail EXCEPT !.entries[1].hits = MaxEntryHits + 1]
    /\ UNCHANGED <<cacheVars, guardVars, srvVars, cfgVars, chunk, stdio>>

\* time passes
Tick ==
    /\ now < MaxTime
    /\ now' = now + 1
    /\ UNCHANGED <<lruItems, maxSize, hits, misses, evictions, mu, muReaders,
                   pc, arg, ret, cbLeft, calls, recency>>
    /\ UNCHANGED <<getsDone, snap, reg, guardVars, srvVars, auxVars>>

ThreadStep(t) ==
    \/ GetLock(t) \/ GetLookup(t) \/ GetHit(t) \/ GetRemoveExpired(t) \/ GetMiss(t)
    \/ SetAdd(t) \/ Remove(t)
    \/ ClearPurge(t) \/ ClearReset(t)
    \/ InvalidatePeek(t) \/ InvalidateRemove(t)
    \/ EvictCallback(t)
    \/ StatsRLock(t) \/ StatsRead(t)

CfgIdle == cmdline = <<>> /\ environ = <<>> /\ config = <<>>
ChunkIdle == chunk = "none"
DetailIdle == detail = [keys |-> <<>>, entries |-> <<>>]
StdioIdle == stdio = "none"
AuxIdle == CfgIdle /\ ChunkIdle /\ DetailIdle /\ StdioIdle

GuardIdle == /\ gPhase = "off" /\ gCwd = <<>> /\ gPath = <<>> /\ gRoots = <<>>
             /\ gPatterns = <<>> /\ gResult = "none"
SrvIdle == /\ fs = <<>> /\ req = "none" /\ resp = "none" /\ prevCached = <<>>
           /\ accessed = {}

\* NewCache(maxSize, ttl): empty LRU, zero counters
Init ==
    /\ lruItems = <<>>
    /\ maxSize \in 1..MaxCap
    /\ hits = 0 /\ misses = 0 /\ evictions = 0
    /\ mu = 0 /\ muReaders = {}
    /\ pc = [t \in Threads |-> "idle"]
    /\ arg = [t \in Threads |-> NoArg]
    /\ ret = [t \in Threads |-> "none"]
    /\ cbLeft = [t \in Threads |-> 0]
    /\ now = 0
    /\ calls = 0
    /\ recency = <<>>
    /\ getsDone = 0
    /\ snap = [t \in Threads |-> NoStats]
    /\ reg = [t \in Threads |-> 0]
    /\ GuardIdle
    /\ SrvIdle
    /\ AuxIdle

Next == Tick \/ \E t \in Threads : ThreadStep(t)

Spec == Init /\ [][Next]_vars

\* the cache used by one goroutine only (the tests of cache_test.go)
Caller == 1

NextSeq == Tick \/ ThreadStep(Caller)

SpecSeq == Init /\ [][NextSeq]_vars

\* one goroutine asks for detailed statistics (and edits what it gets)
\* while the others use the cache
NextStats ==
    \/ StatsDetailedRLock(Caller) \/ StatsKeys(Caller) \/ StatsPeek(Caller)
    \/ StatsReturn(Caller) \/ EditStats(Caller)
    \/ \E u \in Threads \ {Caller} :
          \/ GetLock(u) \/ GetLookup(u) \/ GetHit(u) \/ GetMiss(u)
          \/ SetAdd(u) \/ Remove(u) \/ EvictCallback(u)

SpecStats == Init /\ [][NextStats]_vars

\* a step of Stats(true), or of its caller editing the result
StatsStep ==
    \/ StatsDetailedRLock(Caller) \/ StatsKeys(Caller) \/ StatsPeek(Caller)
    \/ StatsReturn(Caller) \/ EditStats(Caller)

\* C23: Stats(detailed) leaves the cache unchanged (entries with their hit
\* counts, recency order, hits, misses, evictions); Stats(true) returns
\* exactly one record per stored entry, carrying that entry's fields; and
\* changing the returned structure changes nothing in the cache.
C23_StatsIsReadOnlyAndComplete ==
    [][ /\ StatsStep => UNCHANGED <<lruItems, recency, hits, misses, evictions>>
        /\ StatsReturn(Caller) =>
              /\ Len(detail.entries) = Len(lruItems)
              /\ \A i \in 1..Len(lruItems) :
                    \E j \in 1..Len(detail.entries) :
                       detail.entries[j] = EntryStats(lruItems[i].key, lruItems[i].value)
      ]_vars

-----------------------------------------------------------------------------
(* Strings (sequences of characters) and the path functions of             *)
(* path/filepath on a system whose separator is "/"                        *)

Separator == "/"

HasPrefix(s, pre) == Len(s) >= Len(pre) /\ SubSeq(s, 1, Len(pre)) = pre

\* strings.Split(s, sep) for a one-character separator
RECURSIVE SplitFrom(_, _, _)
SplitFrom(s, sep, cur) ==
    IF s = <<>> THEN <<cur>>
    ELSE IF Head(s) = sep THEN <<cur>> \o SplitFrom(Tail(s), sep, <<>>)
    ELSE SplitFrom(Tail(s), sep, Append(cur, Head(s)))
Split(s, sep) == SplitFrom(s, sep, <<>>)

\* strings.Join(parts, sep)
RECURSIVE Join(_, _)
Join(parts, sep) ==
    IF parts = <<>> THEN <<>>
    ELSE IF Len(parts) = 1 THEN parts[1]
    ELSE parts[1] \o <<sep>> \o Join(Tail(parts), sep)

\* filepath.ToSlash: every Separator becomes "/"
ToSlash(s) == [i \in 1..Len(s) |-> IF s[i] = Separator THEN "/" ELSE s[i]]

Dot    == <<".">>
DotDot == <<".", ".">>

\* filepath.Clean, the element loop: out is the stack of kept elements
RECURSIVE CleanElems(_, _, _)
CleanElems(elems, rooted, out) ==
    IF elems = <<>> THEN out
    ELSE LET e == Head(elems) rest == Tail(elems) IN
         IF e = <<>> \/ e = Dot THEN CleanElems(rest, rooted, out)
         ELSE IF e = DotDot
              THEN IF out # <<>> /\ out[Len(out)] # DotDot
                   THEN CleanElems(rest, rooted, SubSeq(out, 1, Len(out) - 1))
                   ELSE IF rooted THEN CleanElems(rest, rooted, out)
                        ELSE CleanElems(rest, rooted, Append(out, e))
              ELSE CleanElems(rest, rooted, Append(out, e))

\* filepath.Clean
Clean(path) ==
    IF path = <<>> THEN Dot
    ELSE LET rooted == path[1] = Separator
             out == CleanElems(Split(path, Separator), rooted, <<>>)
         IN  IF rooted THEN <<Separator>> \o Join(out, Separator)
             ELSE IF out = <<>> THEN Dot ELSE Join(out, Separator)

\* filepath.Abs with working directory wd: Clean(path) if absolute, else
\* Join(wd, path)
Abs(wd, path) ==
    IF path # <<>> /\ path[1] = Separator THEN Clean(path)
    ELSE IF path = <<>> THEN Clean(wd)
    ELSE Clean(wd \o <<Separator>> \o path)

\* filepath.Base
RECURSIVE StripTrailing(_)
StripTrailing(s) ==
    IF s # <<>> /\ s[Len(s)] = Separator
    THEN StripTrailing(SubSeq(s, 1, Len(s) - 1)) ELSE s
Base(path) ==
    IF path = <<>> THEN Dot
    ELSE LET t == StripTrailing(path) IN
         IF t = <<>> THEN <<Separator>>
         ELSE LET parts == Split(t, Separator) IN parts[Len(parts)]

-----------------------------------------------------------------------------
(* doublestar.Match (github.com/bmatcuk/doublestar/v4) for patterns made   *)
(* of literal characters, "?", "*" and "**"                                *)

\* the rest of a pattern that matches the empty name
ZeroLengthPattern(p) ==
    p \in { <<>>, <<"*">>, <<"*", "*">>, <<"/", "*", "*">>,
            <<"*", "*", "/">>, <<"/", "*", "*", "/">> }

\* <<found, rest>>: what follows the next "/" of n
RECURSIVE AfterSlash(_)
AfterSlash(n) ==
    IF n = <<>> THEN <<FALSE, <<>>>>
    ELSE IF Head(n) = "/" THEN <<TRUE, Tail(n)>>
    ELSE AfterSlash(Tail(n))

\* MatchFrom: the main loop; sos: the pattern position starts a path segment.
\* StarFrom: after a "*", which stands for any run of non-separator characters.
\* DoubleStarFrom: after a "**/", which stands for zero or more whole segments.
\* When the name is used up, what is left of the pattern must be able to
\* match the empty string.
RECURSIVE MatchFrom(_, _, _), StarFrom(_, _), DoubleStarFrom(_, _)
StarFrom(rest, n) ==
    \/ MatchFrom(rest, n, FALSE)
    \/ n # <<>> /\ Head(n) # "/" /\ StarFrom(rest, Tail(n))
DoubleStarFrom(rest, n) ==
    \/ MatchFrom(rest, n, TRUE)
    \/ AfterSlash(n)[1] /\ DoubleStarFrom(rest, AfterSlash(n)[2])
MatchFrom(p, n, sos) ==
    IF n = <<>> THEN ZeroLengthPattern(p)
    ELSE IF p = <<>> THEN FALSE
    ELSE IF Len(p) >= 2 /\ p[1] = "*" /\ p[2] = "*" THEN
        IF sos /\ Len(p) = 2 THEN TRUE
        ELSE IF sos /\ p[3] = "/" THEN DoubleStarFrom(SubSeq(p, 4, Len(p)), n)
        ELSE StarFrom(SubSeq(p, 3, Len(p)), n)
    ELSE IF Head(p) = "*" THEN StarFrom(Tail(p), n)
    ELSE IF Head(p) = "?" THEN
        Head(n) # "/" /\ MatchFrom(Tail(p), Tail(n), FALSE)
    ELSE
        Head(p) = Head(n) /\ MatchFrom(Tail(p), Tail(n), Head(p) = "/")

Match(pattern, name) == MatchFrom(pattern, name, TRUE)

-----------------------------------------------------------------------------
(* The access guard: isBlockedPath, isSubPath, validatePath                *)

\* the subpaths isBlockedPath builds: strings.Join(parts[i:], "/") for every i
SubpathsWithoutWholePath(parts) ==
    { Join(SubSeq(parts, i, Len(parts)), "/") : i \in 2..Len(parts) }
Subpaths(parts) ==
    { Join(SubSeq(parts, i, Len(parts)), "/") : i \in 1..Len(parts) }

\* isBlockedPath
isBlockedPath(patterns, absPath) ==
    IF Len(patterns) = 0 THEN FALSE
    ELSE LET normalizedPath == ToSlash(absPath)
             baseName == Base(absPath)
             parts == Split(normalizedPath, "/")
         IN  \E j \in 1..Len(patterns) :
                LET normalizedPattern == ToSlash(patterns[j]) IN
                \/ Match(normalizedPattern, baseName)
                \/ \E sub \in Subpaths(parts) : Match(normalizedPattern, sub)

\* isSubPath
isSubPathNaivePrefix(parent, child) == HasPrefix(Clean(child), Clean(parent))
isSubPath(parent, child) ==
    LET p0 == Clean(parent)
        c  == Clean(child)
        p  == IF p0[Len(p0)] # Separator THEN Append(p0, Separator) ELSE p0
    IN  \/ c = Clean(SubSeq(p, 1, Len(p) - 1))
        \/ (Len(c) >= Len(p) /\ SubSeq(c, 1, Len(p)) = p)

Allowed(absPath)   == [err |-> "none", abs |-> absPath]
DeniedBlocked      == [err |-> "access denied: blocked pattern", abs |-> <<>>]
DeniedOutsideRoots == [err |-> "access denied: outside allowed directories", abs |-> <<>>]

\* validatePath
validatePathRootsFirst(wd, roots, patterns, path) ==
    LET absPath == Abs(wd, path) IN
    IF Len(roots) = 0 /\ ~isBlockedPath(patterns, absPath) THEN Allowed(absPath)
    ELSE IF \E i \in 1..Len(roots) : isSubPath(roots[i], absPath) THEN Allowed(absPath)
    ELSE IF isBlockedPath(patterns, absPath) THEN DeniedBlocked
    ELSE DeniedOutsideRoots
validatePath(wd, roots, patterns, path) ==
    LET absPath == Abs(wd, path) IN
    IF isBlockedPath(patterns, absPath) THEN DeniedBlocked
    ELSE IF Len(roots) = 0 THEN Allowed(absPath)
    ELSE IF \E i \in 1..Len(roots) : isSubPath(roots[i], absPath) THEN Allowed(absPath)
    ELSE DeniedOutsideRoots

-----------------------------------------------------------------------------
(* The guard as a state machine: the configuration and a raw path are      *)
(* chosen, then validatePath runs on them                                  *)

MaxSegs == 3

\* path segments the raw paths are built from
Segs == { <<>>, Dot, DotDot, <<"a">>, <<"a", "-">>, <<".", "e">>, <<".", "a">>, <<"c">> }

SegSeqs == UNION { [1..n -> Segs] : n \in 0..MaxSegs }

\* the paths and patterns named in the specification's examples
P_home_alice       == <<"/","h","o","m","e","/","a","l","i","c","e">>
P_alice_project    == P_home_alice \o <<"/","p","r","o","j","e","c","t","/","x",".","t","x","t">>
P_alice_other      == P_home_alice \o <<"-","o","t","h","e","r","/","x",".","t","x","t">>
P_alice_escape     == P_home_alice \o <<"/",".",".","/","b","o","b">>
P_tmp_env          == <<"/","t","m","p","/",".","e","n","v">>
P_tmp_config       == <<"/","t","m","p","/","c","o","n","f","i","g",".","j","s","o","n">>
P_alice_aws_creds  == P_home_alice \o <<"/",".","a","w","s","/","c","r","e","d","s">>
P_alice_aws        == P_home_alice \o <<"/",".","a","w","s">>
Pat_env            == <<".","e","n","v">>
Pat_aws            == <<".","a","w","s","/","*">>
Pat_mcp_env        == <<".","m","c","p","_","e","n","v">>

ExamplePaths == { P_home_alice, P_alice_project, P_alice_other, P_alice_escape,
                  P_tmp_env, P_tmp_config, P_alice_aws_creds, P_alice_aws }

RawPaths ==
    { Join(ss, "/") : ss \in SegSeqs }
    \cup { <<"/">> \o Join(ss, "/") : ss \in SegSeqs }
    \cup ExamplePaths

\* DefaultBlockedPatterns
DefaultBlockedPatterns == << Pat_aws, Pat_env, Pat_mcp_env >>

PatternConfigs ==
    { <<>>,
      DefaultBlockedPatterns,
      << Pat_env >>,
      << <<".", "e">> >>,
      << <<".", "a", "/", "*">>, <<".", "e">> >>,
      << <<"/", "a", "/", "*">> >>,
      << <<"?", "e">> >>,
      << <<"a", "/", "*", "*">> >>,
      << <<"*">> >> }

\* allowedRootDirs holds absolute, cleaned directories (main applies filepath.Abs)
RootConfigs ==
    { <<>>,
      << <<"/">> >>,
      << <<"/", "a">> >>,
      << <<"/", "a", "/", "c">> >>,
      << <<"/", "a">>, <<"/", "c">> >>,
      << P_home_alice >> }

CwdChoices == { <<"/">>, <<"/", "a">> }

CacheIdleInit ==
    /\ lruItems = <<>> /\ maxSize = 1
    /\ hits = 0 /\ misses = 0 /\ evictions = 0
    /\ mu = 0 /\ muReaders = {}
    /\ pc = [t \in Threads |-> "idle"]
    /\ arg = [t \in Threads |-> NoArg]
    /\ ret = [t \in Threads |-> "none"]
    /\ cbLeft = [t \in Threads |-> 0]
    /\ now = 0 /\ calls = 0 /\ recency = <<>>
    /\ getsDone = 0 /\ snap = [t \in Threads |-> NoStats]
    /\ reg = [t \in Threads |-> 0]

InitGuard ==
    /\ gPhase = "input"
    /\ gCwd \in CwdChoices
    /\ gPath \in RawPaths
    /\ gRoots \in RootConfigs
    /\ gPatterns \in PatternConfigs
    /\ gResult = "none"
    /\ CacheIdleInit
    /\ SrvIdle
    /\ AuxIdle

ValidatePath ==
    /\ gPhase = "input"
    /\ gResult' = validatePath(gCwd, gRoots, gPatterns, gPath)
    /\ gPhase' = "done"
    /\ UNCHANGED <<gCwd, gPath, gRoots, gPatterns>>
    /\ UNCHANGED <<cacheVars, srvVars, auxVars>>

NextGuard == ValidatePath

SpecGuard == InitGuard /\ [][NextGuard]_vars

-----------------------------------------------------------------------------
(* Claims about the guard, checked under SpecGuard *)

gAbs == Abs(gCwd, gPath)

\* what follows each separator of s
AfterEachSeparator(s) ==
    { SubSeq(s, i + 1, Len(s)) : i \in { j \in 1..Len(s) : s[j] = "/" } }

\* the segment chain of a resolved path and its suffixes, as the
\* specification lists them: for /a/b/c/.env: .env, c/.env, b/c/.env, a/b/c/.env
SegmentChain(s) == SelectSeq(Split(s, "/"), LAMBDA x : x # <<>>)
ChainSuffixes(s) ==
    LET ch == SegmentChain(s) IN
    { Join(SubSeq(ch, i, Len(ch)), "/") : i \in 1..Len(ch) }

MatchesAny(patterns, names) ==
    \E j \in 1..Len(patterns) : \E n \in names : Match(patterns[j], n)

\* a pattern matches the base name, the whole resolved path, or what follows
\* one of its separators
BlocklistMatch(patterns, s) ==
    MatchesAny(patterns, {Base(s)} \cup {s} \cup AfterEachSeparator(s))

WithTrailingSeparator(root) ==
    IF root[Len(root)] = "/" THEN root ELSE root \o <<"/">>

UnderSomeRoot(roots, s) ==
    \E i \in 1..Len(roots) :
        s = roots[i] \/ HasPrefix(s, WithTrailingSeparator(roots[i]))

\* C5: a path that matches a blocked pattern is denied whatever the allowed
\* roots are, also when it lies under an allowed root.
C5_BlocklistWinsOverRoots ==
    (gPhase = "done" /\ BlocklistMatch(gPatterns, gAbs)) => gResult = DeniedBlocked

\* C5 witness: a denied path that lies under an allowed root.
C5_Witness ==
    /\ gPhase = "done"
    /\ gRoots = << P_home_alice >>
    /\ gPath = P_alice_aws_creds
    /\ gPatterns = DefaultBlockedPatterns
    /\ UnderSomeRoot(gRoots, gAbs)
    /\ gResult = DeniedBlocked

\* C6 as stated: with roots configured and no blocklist match, a path is
\* accepted exactly when its resolved form equals a root or starts with the
\* root followed by the separator.
C6_Original ==
    (gPhase = "done" /\ Len(gRoots) > 0 /\ ~BlocklistMatch(gPatterns, gAbs))
    => (gResult.err = "none"
        <=> \E i \in 1..Len(gRoots) :
               gAbs = gRoots[i] \/ HasPrefix(gAbs, gRoots[i] \o <<"/">>))

\* C6 amended: ... equals a root or starts with the root followed by the
\* separator, where a root that already ends with the separator (the
\* filesystem root "/") is itself the prefix; an accepted path is returned
\* in its resolved form.
C6_AcceptsExactlyDescendants ==
    (gPhase = "done" /\ Len(gRoots) > 0 /\ ~BlocklistMatch(gPatterns, gAbs))
    => /\ gResult.err = "none" <=> UnderSomeRoot(gRoots, gAbs)
       /\ gResult.err = "none" => gResult = Allowed(gAbs)
       /\ gResult.err # "none" => gResult = DeniedOutsideRoots
       /\ (gRoots = << P_home_alice >> /\ gPath = P_alice_escape)
             => gResult = DeniedOutsideRoots
       /\ (gRoots = << P_home_alice >> /\ gPath = P_home_alice)
             => gResult = Allowed(P_home_alice)
       /\ (gRoots = << P_home_alice >> /\ gPath = P_alice_project)
             => gResult = Allowed(P_alice_project)

\* C6 witness: the sibling that shares only a string prefix with the root
\* has been denied.
C6_Witness ==
    /\ gPhase = "done"
    /\ gRoots = << P_home_alice >>
    /\ gPath = P_alice_other
    /\ gResult = DeniedOutsideRoots

\* C7 as stated, for resolved paths that have at least one segment: with no
\* roots, exactly the paths whose base name or segment-chain suffix matches a
\* pattern are denied; every other path is returned resolved.
C7_Original ==
    (gPhase = "done" /\ Len(gRoots) = 0 /\ SegmentChain(gAbs) # <<>>)
    => IF MatchesAny(gPatterns, {Base(gAbs)} \cup ChainSuffixes(gAbs))
       THEN gResult = DeniedBlocked
       ELSE gResult = Allowed(gAbs)

\* C7 amended: with no roots, validatePath denies exactly the paths for
\* which a pattern matches the base name, a suffix of the segment chain, or
\* the whole resolved path with its leading separator (for the path "/"
\* also the empty string); every other path is returned resolved.
C7_DeniesExactlyBlocklistMatches ==
    (gPhase = "done" /\ Len(gRoots) = 0)
    => /\ IF BlocklistMatch(gPatterns, gAbs)
          THEN gResult = DeniedBlocked
          ELSE gResult = Allowed(gAbs)
       /\ (gPatterns = << Pat_env >> /\ gPath = P_tmp_env)
             => gResult = DeniedBlocked
       /\ (gPatterns = << Pat_env >> /\ gPath = P_tmp_config)
             => gResult = Allowed(P_tmp_config)

\* C7 witness: a path denied through the whole-path candidate only.
C7_Witness ==
    /\ gPhase = "done"
    /\ Len(gRoots) = 0
    /\ gResult = DeniedBlocked
    /\ gAbs # <<"/">>
    /\ ~MatchesAny(gPatterns, {Base(gAbs)} \cup ChainSuffixes(gAbs))

-----------------------------------------------------------------------------
(* Claims about the cache, checked under Spec *)

\* C1: in every reachable state the number of stored entries is at most the
\* maxSize given to NewCache.
C1_SizeNeverExceedsMax == Len(lruItems) <= maxSize

\* C1 witness: the cache is full and a Set has just displaced an entry.
C1_Witness ==
    /\ Len(lruItems) = maxSize
    /\ \E t \in Threads : pc[t] = "set_cb"

\* The stored key whose last successful Get or Set is the oldest.
LeastRecentlyUsed(rec, stored) ==
    LET r == SelectSeq(rec, LAMBDA x : x \in stored)
    IN  r[Len(r)]

\* C2: when a Set inserts a new key into a full cache, exactly one entry
\* leaves, and it is the stored key whose last successful Get or Set is the
\* oldest.
C2_SetEvictsLeastRecentlyUsed ==
    [][\A t \in Threads :
          (pc[t] = "idle" /\ pc'[t] = "set_cb")
          => /\ arg'[t].key = LeastRecentlyUsed(recency, SeqKeys(lruItems))
             /\ SeqKeys(lruItems') =
                   (SeqKeys(lruItems) \ {arg'[t].key}) \cup {lruItems'[1].key}
      ]_vars

\* C3: an entry is returned by Get while now - cachedAt <= ttl; a Get that
\* finds it older than that removes it, records one miss and returns
\* not-found.  Stated on the Get that has removed the expired entry: it can
\* take its next step towards recording the miss.
C3_ExpiredGetRecordsMissAndReturns ==
    /\ \A t \in Threads :
          pc[t] = "get_cb" => ENABLED EvictCallback(t)
    /\ \A t \in Threads :
          (pc[t] = "get_lookup" /\ LruContains(lruItems, arg[t].key)
             /\ ~Expired(LruPeek(lruItems, arg[t].key), now))
          => ENABLED (GetLookup(t) /\ pc'[t] = "get_hit")

\* C4: every Get returns; in particular no goroutine waits for c.mu while it
\* holds c.mu itself, so the holder of the mutex can always take a step.
C4_MutexHolderCanProceed ==
    \A t \in Threads : mu = t => ENABLED ThreadStep(t)

\* C11: in every reachable state hits + misses equals the number of Get
\* calls that returned since the cache was created or its counters were last
\* reset by Clear.
C11_HitsPlusMissesCountsGets == hits + misses = getsDone

\* C11 witness: Gets of both kinds have returned.
C11_Witness == hits >= 1 /\ misses >= 1 /\ getsDone >= 3

\* C12: the evictions counter counts the entries displaced by capacity
\* overflow in Set (since creation or the last Clear): it grows only in the
\* callback of a displacing Set (or, before Clear resets it, of Clear's
\* purge), never for an entry removed by Remove, InvalidateStale or the TTL
\* check of Get.
C12_EvictionsCountOnlyOverflow ==
    [][ evictions' > evictions
        => \E t \in Threads :
              /\ pc[t] \in {"set_cb", "clear_cb"}
              /\ cbLeft'[t] < cbLeft[t] ]_vars

\* C13: every Stats call reports maxSize equal to the capacity given to
\* NewCache, whatever the number of stored entries, and size equal to the
\* number of entries stored when it returns.
C13_StatsReportsCapacityAndSize ==
    [][ \A t \in Threads :
          (pc[t] = "stats_read" /\ pc'[t] = "idle")
          => /\ snap'[t].maxSize = maxSize
             /\ snap'[t].size = Len(lruItems) ]_vars

\* C14: after Set(path, e) the entry stored for path (the most recent one of
\* the LRU) has cachedAt equal to the time of the Set and hitCount 0, whatever
\* entry was passed in, one whose Hits is not 0 included.
C14_SetStampsAndZeroesHits ==
    [][ \A t \in Threads :
          SetAdd(t)
          => /\ lruItems'[1].value.cachedAt = now
             /\ lruItems'[1].value.hits = 0 ]_vars

\* the step is a Set of key k
SetOf(k) ==
    \E t \in Threads : SetAdd(t) /\ lruItems'[1].key = k

\* the step is a Get of key k that returns the entry
HitOn(k) ==
    \E t \in Threads :
        pc[t] = "get_lookup" /\ arg[t].key = k /\ pc'[t] = "get_hit"

\* C15: while an entry stays in the cache (no Set replaces it) its hitCount
\* never decreases: a Get that returns it adds exactly one and no other step
\* changes it, so a fresh entry (Hits 0 when Set) has hitCount n after n
\* successful Gets.
C15_HitCountCountsSuccessfulGets ==
    [][ \A k \in Keys :
          (LruContains(lruItems, k) /\ LruContains(lruItems', k))
          => \/ LruPeek(lruItems', k).hits =
                   LruPeek(lruItems, k).hits + (IF HitOn(k) THEN 1 ELSE 0)
             \/ SetOf(k) ]_vars

\* C15 witness: a Set of a fresh entry and two Gets that returned it.
C15_Witness ==
    /\ calls = 3 /\ hits = 2
    /\ Len(lruItems) = 1 /\ lruItems[1].value.hits = 2
    /\ \A t \in Threads : pc[t] = "idle"

\* C17: InvalidateStale(path, t) returns false, leaving the entries, the
\* recency order and the hit/miss counters as they are, when no entry for
\* path exists or the stored modification time is not strictly older than t;
\* otherwise it goes on to remove, and what it removes (before it returns
\* true) is an entry for path whose stored modification time is strictly
\* older than t.
C17_InvalidateStaleRemovesExactlyStale ==
    [][ \A t \in Threads :
          /\ \A k \in Keys, m \in 0..1 :
                InvalidateStaleOf(t, k, m)
                => LET stale == /\ LruContains(lruItems, k)
                                /\ LruPeek(lruItems, k).mod < m
                   IN  /\ ret'[t] = "false" <=> ~stale
                       /\ pc'[t] = "inv_remove" <=> stale
                       /\ UNCHANGED <<lruItems, recency, hits, misses>>
          /\ InvalidateRemove(t)
             => /\ LruContains(lruItems, arg[t].key)
                /\ LruPeek(lruItems, arg[t].key).mod < arg[t].mod
                /\ ~LruContains(lruItems', arg[t].key)
                /\ SeqKeys(lruItems') = SeqKeys(lruItems) \ {arg[t].key} ]_vars

\* goroutine u is inside a Set, Remove, Clear or InvalidateStale that has
\* changed the LRU and has not yet updated the counters: the entry is gone and
\* the eviction is not counted, or the entries are purged and the counters
\* still hold their values from before the Clear
MidCall(u) ==
    \/ pc[u] \in {"set_cb", "remove_cb", "inv_cb"}
    \/ /\ pc[u] \in {"clear_cb", "clear_reset"}
       /\ hits # 0 \/ misses # 0 \/ evictions # 0

\* C18: Set, Remove, Clear and InvalidateStale take effect atomically: when a
\* concurrent Stats builds its snapshot or a concurrent Get looks up, no such
\* call is between its effects, and between InvalidateStale's check and its
\* removal no other call changes the entry it checked.
C18_MutationsAreAtomic ==
    [][ \A t \in Threads :
          /\ (StatsRead(t) \/ GetLookup(t))
             => \A u \in Threads \ {t} : ~MidCall(u)
          /\ (pc[t] = "inv_remove" /\ pc'[t] = "inv_remove")
             => /\ LruContains(lruItems', arg[t].key)
                /\ LruPeek(lruItems', arg[t].key) = LruPeek(lruItems, arg[t].key)
      ]_vars

\* C19: however the Gets of concurrent callers interleave (none finding an
\* expired entry), each Get that returns has added exactly one to hits or to
\* misses, and each Get that finds its entry has added exactly one to that
\* entry's hitCount: no increment is lost.
C19_NoLostIncrement ==
    [][ \A t \in Threads :
          /\ GetHit(t) => hits' = hits + 1 /\ misses' = misses
          /\ GetMiss(t) => misses' = misses + 1 /\ hits' = hits
          /\ (GetLookup(t) /\ pc'[t] = "get_hit")
             => LruPeek(lruItems', arg[t].key).hits =
                   LruPeek(lruItems, arg[t].key).hits + 1 ]_vars

\* C19 witness: Gets of both goroutines have returned the same entry.
C19_Witness ==
    /\ ret[1] = "hit" /\ ret[2] = "hit"
    /\ hits = 2
    /\ \E i \in 1..Len(lruItems) : lruItems[i].value.hits = 2

-----------------------------------------------------------------------------
(* Claims about the cache used by a single caller, checked under SpecSeq *)

\* Clear is the last call that returned and no call has started since
Cleared == pc[Caller] = "idle" /\ ret[Caller] = "ok"

\* what the claim says of the cache after Clear
Zeroed ==
    /\ LET st == Stats(lruItems, maxSize, hits, misses, evictions)
       IN  st.size = 0 /\ st.hits = 0 /\ st.misses = 0 /\ st.evictions = 0
    /\ \A k \in Keys : CacheGet(lruItems, k, now).outcome = "miss"

\* C16: with no concurrent caller, after Clear returns Stats reports size 0,
\* hits 0, misses 0 and evictions 0 and a Get of any key is a miss; a Clear
\* called in that state changes nothing and returns in that state again.
C16_ClearZeroesAndIsIdempotent ==
    [][ /\ Cleared => Zeroed
        /\ Cleared' => Zeroed'
        /\ (Cleared /\ ClearPurge(Caller))
           => /\ pc'[Caller] = "clear_reset"
              /\ UNCHANGED <<lruItems, hits, misses, evictions>> ]_vars

\* C16 witness: Clear has returned on a cache that held two keys.
C16_Witness == Cleared /\ Len(recency) >= 2

-----------------------------------------------------------------------------
(* The filesystem the tools work on, and package files (pkg/files)         *)

\* program constants
DefaultMaxSize   == 10485760
DefaultCacheSize == 500
DefaultChunkSize == 65536

\* a path holds nothing, a regular file (content, modification time) or a
\* directory (the modification time of a directory is never read)
NoFile     == [kind |-> "none", content |-> <<>>, mtime |-> 0]
File(c, t) == [kind |-> "file", content |-> c, mtime |-> t]
Directory  == [kind |-> "dir", content |-> <<>>, mtime |-> 0]

\* the paths of the modelled tree, in the lexical order filepath.WalkDir visits
W       == <<"/","w">>
W_aws   == <<"/","w","/",".","a","w","s">>
W_aws_c == <<"/","w","/",".","a","w","s","/","c">>
W_env   == <<"/","w","/",".","e","n","v">>
W_a     == <<"/","w","/","a">>
W_b     == <<"/","w","/","b">>
W_k     == <<"/","w","/","k">>
W_k_c   == <<"/","w","/","k","/","c">>
FsPathSeq == << W, W_aws, W_aws_c, W_env, W_a, W_b, W_k, W_k_c >>
FsPaths   == { FsPathSeq[i] : i \in 1..Len(FsPathSeq) }

\* what files hold: a secret, and what the tools write
Secret   == <<"s">>
Contents == { <<"x">>, <<"y", "y">> }
Chars    == { "x", "y" }

\* DefaultIgnorePatterns
DefaultIgnorePatterns ==
    << <<".","g","i","t">>,
       <<"n","o","d","e","_","m","o","d","u","l","e","s">>,
       <<".","v","s","c","o","d","e">>,
       <<".","i","d","e","a">>,
       <<"_","_","p","y","c","a","c","h","e","_","_">>,
       <<".","D","S","_","S","t","o","r","e">>,
       <<"*",".","p","y","c">>,
       <<".","e","n","v">>,
       <<"d","i","s","t">>,
       <<"b","u","i","l","d">>,
       <<"c","o","v","e","r","a","g","e">>,
       <<".","n","e","x","t">>,
       <<".","n","u","x","t">>,
       <<"v","e","n","d","o","r">>,
       <<".","c","a","c","h","e">> >>

\* os.Stat
Stat(fsys, p) == IF p \in FsPaths THEN fsys[p] ELSE NoFile

\* p lies below directory d
Under(d, p) == HasPrefix(p, d \o <<Separator>>)

\* filepath.Dir
Dir(p) ==
    LET parts == Split(Clean(p), Separator)
    IN  Clean(<<Separator>> \o Join(SubSeq(parts, 1, Len(parts) - 1), Separator))

\* os.MkdirAll(d): fails when d or one of its ancestors is a regular file,
\* else creates every missing directory on the way
MkdirAllOk(fsys, d) ==
    \A q \in FsPaths : (q = d \/ Under(q, d)) => fsys[q].kind # "file"
MkdirAll(fsys, d) ==
    [q \in FsPaths |->
        IF (q = d \/ Under(q, d)) /\ fsys[q].kind = "none" THEN Directory ELSE fsys[q]]

\* strings.HasPrefix(name, ".")
Hidden(name) == name # <<>> /\ name[1] = "."

\* the walk function of ListFiles on one name: skipped when hidden (and hidden
\* files are not included) or when it matches an ignore pattern
Skipped(name, includeHidden) ==
    \/ ~includeHidden /\ Hidden(name)
    \/ \E i \in 1..Len(DefaultIgnorePatterns) : Match(DefaultIgnorePatterns[i], name)

\* ListFiles: the entries below dirPath (the directory itself is never an
\* entry and never skipped); a skipped directory hides everything below it;
\* without recursion only the direct children
ListFiles(fsys, dirPath, recursive, includeHidden) ==
    { q \in FsPaths :
        /\ Under(dirPath, q)
        /\ fsys[q].kind # "none"
        /\ LET names == Split(SubSeq(q, Len(dirPath) + 2, Len(q)), Separator)
           IN  /\ \A i \in 1..Len(names) : ~Skipped(names[i], includeHidden)
               /\ recursive \/ Len(names) = 1 }

\* ListFiles fails on a missing path and on a regular file
ListFilesErr(fsys, dirPath) ==
    IF Stat(fsys, dirPath).kind = "none" THEN "FILE_NOT_FOUND"
    ELSE IF Stat(fsys, dirPath).kind = "file" THEN "INVALID_PATH"
    ELSE "none"

\* ReadFile: the error, if any
ReadFileErr(fsys, p, limit) ==
    IF Stat(fsys, p).kind = "none" THEN "FILE_NOT_FOUND"
    ELSE IF Stat(fsys, p).kind = "dir" THEN "INVALID_PATH"
    ELSE IF limit > 0 /\ Len(Stat(fsys, p).content) > limit THEN "FILE_TOO_LARGE"
    ELSE "none"

\* ReadDirectory: path -> content of every listed regular file that ReadFile
\* can read
ReadDirectory(fsys, dirPath, recursive, limit) ==
    { <<q, fsys[q].content>> :
        q \in { f \in ListFiles(fsys, dirPath, recursive, FALSE) :
                  fsys[f].kind = "file" /\ ReadFileErr(fsys, f, limit) = "none" } }

\* strings.Contains(content, c) for a one-character c
Contains(content, c) == \E i \in 1..Len(content) : content[i] = c

\* SearchFiles for a pattern that is one literal character: the listed
\* regular files are searched, those holding the character are reported
SearchedFiles(fsys, basePath, recursive) ==
    { f \in ListFiles(fsys, basePath, recursive, FALSE) : fsys[f].kind = "file" }
SearchFiles(fsys, basePath, pattern, recursive) ==
    { <<f, fsys[f].content>> :
        f \in { g \in SearchedFiles(fsys, basePath, recursive) :
                  Contains(fsys[g].content, pattern) } }

\* Signed machine integers.  int64 is modelled with WordBits bits (the
\* arithmetic is the same two's-complement arithmetic at every width):
\* sums and products wrap around, division truncates toward zero.
WordBits == 18
MinWord == -(2 ^ (WordBits - 1))
MaxWord == (2 ^ (WordBits - 1)) - 1
Wrap(x) == ((x - MinWord) % (2 ^ WordBits)) + MinWord
Magnitude(x) == IF x < 0 THEN -x ELSE x
\* a / b for b # 0
Quo(a, b) ==
    LET q == Magnitude(a) \div Magnitude(b)
    IN  Wrap(IF (a < 0) = (b < 0) THEN q ELSE -q)

\* int((size + chunkSize - 1) / chunkSize), for chunkSize # 0
Chunks(size, chunkSize) == Quo(Wrap(Wrap(size + chunkSize) - 1), chunkSize)

\* the sum of the sizes of the regular files among entries[1..n]
RECURSIVE TotalSize(_, _, _)
TotalSize(fsys, entries, n) ==
    IF n = 0 THEN 0
    ELSE Wrap(TotalSize(fsys, entries, n - 1)
              + IF FsPathSeq[n] \in entries /\ fsys[FsPathSeq[n]].kind = "file"
                THEN Len(fsys[FsPathSeq[n]].content) ELSE 0)

\* analysis.GetChunkCount: the count, an error, or a run-time panic (integer
\* division by zero)
GetChunkCount(fsys, p, chunkSize) ==
    LET info == Stat(fsys, p)
        size == IF info.kind = "dir"
                THEN TotalSize(fsys, ListFiles(fsys, p, TRUE, FALSE), Len(FsPathSeq))
                ELSE Len(info.content)
    IN  IF info.kind = "none" THEN [err |-> "FILE_NOT_FOUND", count |-> 0, panic |-> FALSE]
        ELSE IF chunkSize = 0 THEN [err |-> "none", count |-> 0, panic |-> TRUE]
        ELSE [err |-> "none", count |-> Chunks(size, chunkSize), panic |-> FALSE]

\* analysis.ReadChunk on a regular file, for chunkSize > 0:
\* <<chunk, totalChunks>>.  file.Read fills the buffer up to the end of the
\* file.
ReadChunk(fsys, p, chunkNumber, chunkSize) ==
    LET content == fsys[p].content
        size == Len(content)
        totalChunks == Chunks(size, chunkSize)
        offset == Wrap(chunkNumber * chunkSize)
        last == IF size - offset > chunkSize THEN offset + chunkSize ELSE size
    IN  IF chunkNumber >= totalChunks THEN << <<>>, totalChunks >>
        ELSE << SubSeq(content, offset + 1, last), totalChunks >>

\* what a file operation hands back: an error code or "none", and the
\* filesystem it leaves behind
FsResult(e, fsys, n) == [err |-> e, fs |-> fsys, n |-> n]

\* WriteFile: the parent directories are created, the file is created or
\* overwritten and takes the current time as its modification time
WriteFile(fsys, p, content, t) ==
    IF ~MkdirAllOk(fsys, Dir(p)) THEN FsResult("PERMISSION_DENIED", fsys, 0)
    ELSE IF fsys[p].kind = "dir" THEN FsResult("UNKNOWN_ERROR", fsys, 0)
    ELSE FsResult("none", [MkdirAll(fsys, Dir(p)) EXCEPT ![p] = File(content, t)],
                  Len(content))

\* copyFileOnly: os.Open(source), os.MkdirAll(dir), os.Create(destination),
\* io.Copy; os.Create truncates, so copying a file onto itself empties it
copyFileOnly(fsys, source, destination, t) ==
    IF Stat(fsys, source).kind = "none" THEN FsResult("UNKNOWN_ERROR", fsys, 0)
    ELSE IF ~MkdirAllOk(fsys, Dir(destination))
         THEN FsResult("PERMISSION_DENIED", fsys, 0)
    ELSE IF fsys[destination].kind = "dir" THEN FsResult("UNKNOWN_ERROR", fsys, 0)
    ELSE LET copied == IF source = destination THEN <<>> ELSE fsys[source].content
         IN  FsResult("none",
                      [MkdirAll(fsys, Dir(destination))
                          EXCEPT ![destination] = File(copied, t)],
                      Len(copied))

\* filepath.Join(destination, filepath.Rel(source, path))
Rebase(source, destination, path) ==
    destination \o SubSeq(path, Len(source) + 1, Len(path))

\* filepath.WalkDir(source): source and everything below it, in lexical order
WalkDir(fsys, source) ==
    SelectSeq(FsPathSeq,
              LAMBDA q : (q = source \/ Under(source, q)) /\ fsys[q].kind # "none")

\* copyDirectory, the walk: directories are created at the destination, files
\* are copied with copyFileOnly; the first error ends the walk and leaves what
\* was copied so far
RECURSIVE CopyWalk(_, _, _, _, _, _)
CopyWalk(fsys, walk, source, destination, t, total) ==
    IF walk = <<>> THEN FsResult("none", fsys, total)
    ELSE LET path == Head(walk)
             destPath == Rebase(source, destination, path)
         IN  IF fsys[path].kind = "dir"
             THEN IF MkdirAllOk(fsys, destPath)
                  THEN CopyWalk(MkdirAll(fsys, destPath), Tail(walk),
                                source, destination, t, total)
                  ELSE FsResult("UNKNOWN_ERROR", fsys, total)
             ELSE LET r == copyFileOnly(fsys, path, destPath, t)
                  IN  IF r.err # "none" THEN FsResult("UNKNOWN_ERROR", r.fs, total)
                      ELSE CopyWalk(r.fs, Tail(walk), source, destination, t,
                                    total + r.n)

copyDirectory(fsys, source, destination, t) ==
    CopyWalk(fsys, WalkDir(fsys, source), source, destination, t, 0)

\* CopyFile
CopyFile(fsys, source, destination, t) ==
    IF Stat(fsys, source).kind = "none" THEN FsResult("FILE_NOT_FOUND", fsys, 0)
    ELSE IF fsys[source].kind = "dir" THEN copyDirectory(fsys, source, destination, t)
    ELSE copyFileOnly(fsys, source, destination, t)

\* os.RemoveAll
RemoveAll(fsys, p) ==
    [q \in FsPaths |-> IF q = p \/ Under(p, q) THEN NoFile ELSE fsys[q]]

\* os.Rename succeeds (source and destination on one filesystem) when the
\* destination is the source, or a file goes onto a file or a free name, or a
\* directory goes onto a free name or an empty directory
RenameOk(fsys, source, destination) ==
    \/ source = destination
    \/ fsys[source].kind = "file" /\ fsys[destination].kind # "dir"
    \/ /\ fsys[source].kind = "dir"
       /\ ~Under(source, destination)
       /\ \/ fsys[destination].kind = "none"
          \/ /\ fsys[destination].kind = "dir"
             /\ \A q \in FsPaths : Under(destination, q) => fsys[q].kind = "none"

\* os.Rename: the source tree, unchanged (modification times included),
\* is now at the destination
Rename(fsys, source, destination) ==
    IF source = destination THEN fsys
    ELSE [q \in FsPaths |->
            IF q = destination \/ Under(destination, q)
            THEN Stat(fsys, Rebase(destination, source, q))
            ELSE IF q = source \/ Under(source, q) THEN NoFile
            ELSE fsys[q]]

\* MoveFile: rename, and when the rename fails copy and delete the source
MoveFile(fsys, source, destination, t) ==
    IF Stat(fsys, source).kind = "none" THEN FsResult("FILE_NOT_FOUND", fsys, 0)
    ELSE IF ~MkdirAllOk(fsys, Dir(destination))
         THEN FsResult("PERMISSION_DENIED", fsys, 0)
    ELSE LET made == MkdirAll(fsys, Dir(destination)) IN
         IF RenameOk(made, source, destination)
         THEN FsResult("none", Rename(made, source, destination), 0)
         ELSE LET c == IF made[source].kind = "dir"
                       THEN copyDirectory(made, source, destination, t)
                       ELSE copyFileOnly(made, source, destination, t)
              IN  IF c.err # "none" THEN c
                  ELSE FsResult("none", RemoveAll(c.fs, source), 0)

\* CreateDirectory: an existing directory is left alone, an existing file is
\* an error, anything else goes to os.MkdirAll
CreateDirectory(fsys, p) ==
    IF Stat(fsys, p).kind = "dir" THEN FsResult("none", fsys, 0)
    ELSE IF Stat(fsys, p).kind = "file" THEN FsResult("ALREADY_EXISTS", fsys, 0)
    ELSE IF ~MkdirAllOk(fsys, p) THEN FsResult("UNKNOWN_ERROR", fsys, 0)
    ELSE FsResult("none", MkdirAll(fsys, p), 0)

\* DeleteFile
DeleteFile(fsys, p, recursive) ==
    IF Stat(fsys, p).kind = "none" THEN FsResult("FILE_NOT_FOUND", fsys, 0)
    ELSE IF fsys[p].kind = "dir" /\ ~recursive
              /\ \E q \in FsPaths : Under(p, q) /\ fsys[q].kind # "none"
         THEN FsResult("NOT_EMPTY", fsys, 0)
    ELSE FsResult("none", RemoveAll(fsys, p), 0)

\* strings.Count, strings.ReplaceAll and strings.Replace(.., 1) for a
\* one-character find and a one-character replacement
Count(content, find) == Cardinality({ i \in 1..Len(content) : content[i] = find })
ReplaceAll(content, find, replace) ==
    [i \in 1..Len(content) |-> IF content[i] = find THEN replace ELSE content[i]]
ReplaceFirst(content, find, replace) ==
    IF ~Contains(content, find) THEN content
    ELSE LET first == CHOOSE i \in 1..Len(content) :
                         /\ content[i] = find
                         /\ \A j \in 1..(i - 1) : content[j] # find
         IN  [content EXCEPT ![first] = replace]

\* ModifyFile (literal find, no regex): the file is written only when the
\* content changes; n is the number of replacements
ModifyFile(fsys, p, find, replace, allOccurrences, t) ==
    IF Stat(fsys, p).kind = "none" THEN FsResult("FILE_NOT_FOUND", fsys, 0)
    ELSE IF fsys[p].kind = "dir" THEN FsResult("UNKNOWN_ERROR", fsys, 0)
    ELSE LET originalContent == fsys[p].content
             newContent == IF allOccurrences
                           THEN ReplaceAll(originalContent, find, replace)
                           ELSE ReplaceFirst(originalContent, find, replace)
             replacements == IF allOccurrences THEN Count(originalContent, find)
                             ELSE IF Contains(originalContent, find) THEN 1 ELSE 0
         IN  IF newContent # originalContent
             THEN FsResult("none", [fsys EXCEPT ![p] = File(newContent, t)], replacements)
             ELSE FsResult("none", fsys, replacements)

-----------------------------------------------------------------------------
(* The tool handlers of main.go.  The server reads one request at a time   *)
(* (Server.Run) and runs its handler to the end on the same goroutine, so  *)
(* a handler is one step; the goroutine is thread 1 of the cache's callers.*)

MaxRequests == 3

ServerThread == 1

\* the configuration main resolves at startup: working directory,
\* allowedRootDirs, blockedPatterns
ServerCwd      == <<Separator>>
ServerRoots    == << W >>
ServerPatterns == DefaultBlockedPatterns

\* the path arguments the tools are called with
ReadPaths    == { W, W_aws, W_aws_c, W_a, W_b }
SearchPaths  == { W, W_aws }
WritePaths   == { W_a, W_b, W_env }
Sources      == { W_a, W_b, W_aws, W_aws_c }
Destinations == { W_a, W_b, W_k }
DeletePaths  == { W_a, W_aws, W_env }
\* the filePathList arguments of get_files
FileLists    == { <<W_aws_c, W_a>>, <<W_a, W_env>>, <<W_b, W_k>>, <<W_a, W_a>> }

\* maxSize arguments of read_context: a small limit and the default
MaxSizeArgs == { 1, DefaultMaxSize }

NoReq ==
    [tool |-> "none", path |-> <<>>, destination |-> <<>>, maxSize |-> 0,
     filePathList |-> <<>>, chunkSize |-> 0]
NoResp ==
    [status |-> "none", err |-> "none", form |-> "none", content |-> <<>>,
     body |-> {}, path |-> <<>>, count |-> 0]

errorResultWithoutIsError(e) == [NoResp EXCEPT !.status = "ok", !.err = e]
errorResult(e) == [NoResp EXCEPT !.status = "error", !.err = e]
\* textResult: form tells what was marshalled into the text
textResult(form, p, content, body) ==
    [NoResp EXCEPT !.status = "ok", !.form = form, !.path = p,
                   !.content = content, !.body = body]

NotCached == [has |-> FALSE, content |-> <<>>, cachedAt |-> 0, at |-> 0]

\* history: for every path whose content the call changed (and, for a
\* delete, every file it removed), what the cache held for it before the
\* call, and the time of the call
NotePrevCached(prev, items, before, after, isDelete, t) ==
    [q \in FsPaths |->
        IF \/ /\ after[q].kind = "file"
              /\ before[q].kind # "file" \/ before[q].content # after[q].content
           \/ isDelete /\ before[q].kind = "file" /\ after[q].kind = "none"
        THEN IF LruContains(items, q)
             THEN [has |-> TRUE, content |-> LruPeek(items, q).content,
                   cachedAt |-> LruPeek(items, q).cachedAt, at |-> t]
             ELSE NotCached
        ELSE prev[q]]

\* the server goroutine is between requests (not blocked inside a handler)
ServerReady == pc[ServerThread] = "idle" /\ calls < MaxRequests

\* a handler that does not use the cache returns: the filesystem it left,
\* its result, and the histories
Finish(request, after, response, touchedFiles, isDelete) ==
    /\ req' = request
    /\ fs' = after
    /\ resp' = response
    /\ accessed' = touchedFiles
    /\ prevCached' = NotePrevCached(prevCached, lruItems, fs, after, isDelete, now)
    /\ calls' = calls + 1
    /\ UNCHANGED <<lruItems, maxSize, hits, misses, evictions, mu, muReaders,
                   pc, arg, ret, cbLeft, now, recency, getsDone, snap, reg>>
    /\ UNCHANGED <<guardVars, auxVars>>

\* the regular files at or below p
FilesAt(fsys, p) ==
    { q \in FsPaths : (q = p \/ Under(p, q)) /\ fsys[q].kind = "file" }

\* the destinations a copy or move of source would write stay inside the tree
InsideTree(fsys, source, destination) ==
    \A q \in FsPaths :
        ((q = source \/ Under(source, q)) /\ fsys[q].kind # "none")
        => Rebase(source, destination, q) \in FsPaths

handleWriteFile ==
    /\ ServerReady
    /\ \E path \in WritePaths, content \in Contents :
          LET request == [NoReq EXCEPT !.tool = "write_file", !.path = path]
              v == gResult[path]
          IN  IF v.err # "none" THEN Finish(request, fs, errorResult(v.err), {}, FALSE)
              ELSE \E r \in { WriteFile(fs, v.abs, content, now) } :
                   IF r.err # "none"
                   THEN Finish(request, r.fs, errorResult(r.err), {}, FALSE)
                   ELSE Finish(request, r.fs,
                               textResult("write", v.abs, <<>>, {}), {}, FALSE)

handleModifyFile ==
    /\ ServerReady
    /\ \E path \in WritePaths, find \in Chars, replace \in Chars,
          allOccurrences \in BOOLEAN :
          LET request == [NoReq EXCEPT !.tool = "modify_file", !.path = path]
              v == gResult[path]
          IN  IF v.err # "none" THEN Finish(request, fs, errorResult(v.err), {}, FALSE)
              ELSE \E r \in { ModifyFile(fs, v.abs, find, replace, allOccurrences, now) } :
                   IF r.err # "none"
                   THEN Finish(request, r.fs, errorResult(r.err), {}, FALSE)
                   ELSE Finish(request, r.fs,
                               textResult("modify", v.abs, <<>>, {}), {}, FALSE)

handleCopyFile ==
    /\ ServerReady
    /\ \E source \in Sources, destination \in Destinations :
          LET request == [NoReq EXCEPT !.tool = "copy_file", !.path = source,
                                       !.destination = destination]
              vs == gResult[source]
              vd == gResult[destination]
          IN  IF vs.err # "none" THEN Finish(request, fs, errorResult(vs.err), {}, FALSE)
              ELSE IF vd.err # "none"
                   THEN Finish(request, fs, errorResult(vd.err), {}, FALSE)
              ELSE /\ InsideTree(fs, vs.abs, vd.abs)
                   /\ \E r \in { CopyFile(fs, vs.abs, vd.abs, now) } :
                      IF r.err # "none"
                      THEN Finish(request, r.fs, errorResult(r.err),
                                  { q \in FilesAt(fs, vs.abs) :
                                      r.fs[Rebase(vs.abs, vd.abs, q)] # fs[Rebase(vs.abs, vd.abs, q)] },
                                  FALSE)
                      ELSE Finish(request, r.fs, textResult("copy", vs.abs, <<>>, {}),
                                  FilesAt(fs, vs.abs), FALSE)

handleMoveFile ==
    /\ ServerReady
    /\ \E source \in Sources, destination \in Destinations :
          LET request == [NoReq EXCEPT !.tool = "move_file", !.path = source,
                                       !.destination = destination]
              vs == gResult[source]
              vd == gResult[destination]
          IN  IF vs.err # "none" THEN Finish(request, fs, errorResult(vs.err), {}, FALSE)
              ELSE IF vd.err # "none"
                   THEN Finish(request, fs, errorResult(vd.err), {}, FALSE)
              ELSE /\ InsideTree(fs, vs.abs, vd.abs)
                   /\ \E r \in { MoveFile(fs, vs.abs, vd.abs, now) } :
                      IF r.err # "none"
                      THEN Finish(request, r.fs, errorResult(r.err),
                                  { q \in FilesAt(fs, vs.abs) :
                                      r.fs[Rebase(vs.abs, vd.abs, q)] # fs[Rebase(vs.abs, vd.abs, q)] },
                                  FALSE)
                      ELSE Finish(request, r.fs, textResult("move", vs.abs, <<>>, {}),
                                  IF vs.abs = vd.abs THEN {} ELSE FilesAt(fs, vs.abs),
                                  FALSE)

handleDeleteFile ==
    /\ ServerReady
    /\ \E path \in DeletePaths, recursive \in BOOLEAN :
          LET request == [NoReq EXCEPT !.tool = "delete_file", !.path = path]
              v == gResult[path]
          IN  IF v.err # "none" THEN Finish(request, fs, errorResult(v.err), {}, TRUE)
              ELSE \E r \in { DeleteFile(fs, v.abs, recursive) } :
                   IF r.err # "none"
                   THEN Finish(request, r.fs, errorResult(r.err), {}, TRUE)
                   ELSE Finish(request, r.fs,
                               textResult("delete", v.abs, <<>>, {}), {}, TRUE)

handleSearchContext ==
    /\ ServerReady
    /\ \E path \in SearchPaths, pattern \in {"x", "s"}, recursive \in BOOLEAN :
          LET request == [NoReq EXCEPT !.tool = "search_context", !.path = path]
              v == gResult[path]
          IN  IF v.err # "none" THEN Finish(request, fs, errorResult(v.err), {}, FALSE)
              ELSE IF ListFilesErr(fs, v.abs) # "none"
                   THEN Finish(request, fs, errorResult(ListFilesErr(fs, v.abs)), {}, FALSE)
              ELSE Finish(request, fs,
                          textResult("matches", v.abs, <<>>,
                                     SearchFiles(fs, v.abs, pattern, recursive)),
                          SearchedFiles(fs, v.abs, recursive), FALSE)

\* handleGetFiles, the loop: results[fileName] is the validation error, the
\* read error or the content; a later item of the same name overwrites
RECURSIVE GetFilesResults(_, _, _)
GetFilesResults(fsys, decisions, filePathList) ==
    IF filePathList = <<>> THEN {}
    ELSE LET n == Len(filePathList)
             fileName == filePathList[n]
             v == decisions[fileName]
             readErr == ReadFileErr(fsys, v.abs, DefaultMaxSize)
             result ==
                 IF v.err # "none"
                 THEN [fileName |-> fileName, err |-> v.err, content |-> <<>>]
                 ELSE IF readErr # "none"
                 THEN [fileName |-> fileName, err |-> readErr, content |-> <<>>]
                 ELSE [fileName |-> fileName, err |-> "none",
                       content |-> fsys[v.abs].content]
         IN  { r \in GetFilesResults(fsys, decisions, SubSeq(filePathList, 1, n - 1)) :
                 r.fileName # fileName } \cup {result}

handleGetFiles ==
    /\ ServerReady
    /\ \E filePathList \in FileLists :
          LET request == [NoReq EXCEPT !.tool = "get_files",
                                       !.filePathList = filePathList]
          IN  \E results \in { GetFilesResults(fs, gResult, filePathList) } :
                 Finish(request, fs, textResult("files", <<>>, <<>>, results),
                        { gResult[r.fileName].abs : r \in { x \in results : x.err = "none" } },
                        FALSE)

handleCreateDirectory ==
    /\ ServerReady
    /\ \E path \in { W_k, W_b, W_env } :
          LET request == [NoReq EXCEPT !.tool = "create_directory", !.path = path]
              v == gResult[path]
          IN  IF v.err # "none" THEN Finish(request, fs, errorResult(v.err), {}, FALSE)
              ELSE \E r \in { CreateDirectory(fs, v.abs) } :
                   IF r.err # "none"
                   THEN Finish(request, r.fs, errorResult(r.err), {}, FALSE)
                   ELSE Finish(request, r.fs,
                               textResult("created", v.abs, <<>>, {}), {}, FALSE)

\* handleAnalyzeCode: the result holds metrics of the files, not their content
handleAnalyzeCode ==
    /\ ServerReady
    /\ \E path \in { W, W_a, W_k, W_aws } :
          LET request == [NoReq EXCEPT !.tool = "analyze_code", !.path = path]
              v == gResult[path]
          IN  IF v.err # "none" THEN Finish(request, fs, errorResult(v.err), {}, FALSE)
              ELSE IF Stat(fs, v.abs).kind = "none"
                   THEN Finish(request, fs, errorResult("Path not found"), {}, FALSE)
              ELSE Finish(request, fs, textResult("analysis", v.abs, <<>>, {}),
                          {}, FALSE)

\* a run-time panic in a handler: nothing recovers it, the process ends
\* without writing a response
Abort(request) ==
    /\ req' = request
    /\ resp' = [NoResp EXCEPT !.status = "panic"]
    /\ pc' = [pc EXCEPT ![ServerThread] = "panic"]
    /\ calls' = calls + 1
    /\ UNCHANGED <<lruItems, maxSize, hits, misses, evictions, mu, muReaders,
                   arg, ret, cbLeft, now, recency, getsDone, snap, reg>>
    /\ UNCHANGED <<fs, prevCached, accessed>>
    /\ UNCHANGED <<guardVars, auxVars>>

\* the chunkSize arguments of get_chunk_count
ChunkSizeArgs == { -1, 0, 1, DefaultChunkSize }

handleGetChunkCount ==
    /\ ServerReady
    /\ \E path \in { W, W_b, W_k, W_env }, chunkSize \in ChunkSizeArgs :
          LET request == [NoReq EXCEPT !.tool = "get_chunk_count", !.path = path,
                                       !.chunkSize = chunkSize]
              v == gResult[path]
          IN  IF v.err # "none" THEN Finish(request, fs, errorResult(v.err), {}, FALSE)
              ELSE \E r \in { GetChunkCount(fs, v.abs, chunkSize) } :
                   IF r.err # "none" THEN Finish(request, fs, errorResult(r.err), {}, FALSE)
                   ELSE IF r.panic THEN Abort(request)
                   ELSE Finish(request, fs,
                               [textResult("chunkCount", v.abs, <<>>, {})
                                   EXCEPT !.count = r.count],
                               {}, FALSE)

\* handleReadContext on a regular file: what the cache and the result become
ReadContextFile(absPath, info, limit, chunkNumber) ==
    LET g == CacheGet(lruItems, absPath, now)
        cached == LruPeek(lruItems, absPath)
        counted == [hits |-> IF g.outcome = "hit" THEN hits + 1 ELSE hits,
                    misses |-> IF g.outcome = "miss" THEN misses + 1 ELSE misses]
    IN  IF g.outcome = "deadlock"
        THEN [hung |-> TRUE, items |-> g.items, hits |-> hits, misses |-> misses,
              evicted |-> FALSE, stored |-> FALSE,
              resp |-> [NoResp EXCEPT !.status = "hung", !.path = absPath]]
        ELSE IF g.outcome = "hit" /\ cached.mod >= info.mtime
        THEN [hung |-> FALSE, items |-> g.items, hits |-> counted.hits,
              misses |-> counted.misses, evicted |-> FALSE, stored |-> FALSE,
              resp |-> textResult("raw", absPath, cached.content, {})]
        ELSE IF Len(info.content) > limit
        THEN [hung |-> FALSE, items |-> g.items, hits |-> counted.hits,
              misses |-> counted.misses, evicted |-> FALSE, stored |-> FALSE,
              resp |-> textResult("chunk", absPath,
                                  ReadChunk(fs, absPath, chunkNumber, DefaultChunkSize)[1],
                                  {})]
        ELSE LET added == LruAdd(g.items, maxSize, absPath,
                                 Entry(info.content, Len(info.content), info.mtime, now, 0))
             IN  [hung |-> FALSE, items |-> added.items, hits |-> counted.hits,
                  misses |-> counted.misses, evicted |-> added.evicted, stored |-> TRUE,
                  resp |-> textResult("json", absPath, info.content, {})]

handleReadContext ==
    /\ ServerReady
    /\ \E path \in ReadPaths, limit \in MaxSizeArgs, chunkNumber \in 0..1,
          recursive \in BOOLEAN :
          LET request == [NoReq EXCEPT !.tool = "read_context", !.path = path,
                                       !.maxSize = limit]
              v == gResult[path]
              info == Stat(fs, v.abs)
          IN  IF v.err # "none" THEN Finish(request, fs, errorResult(v.err), {}, FALSE)
              ELSE IF info.kind = "none"
                   THEN Finish(request, fs, errorResult("Path not found"), {}, FALSE)
              ELSE IF info.kind = "dir"
                   THEN \E contents \in { ReadDirectory(fs, v.abs, recursive, limit) } :
                        Finish(request, fs, textResult("dir", v.abs, <<>>, contents),
                               { c[1] : c \in contents }, FALSE)
              ELSE \E o \in { ReadContextFile(v.abs, info, limit, chunkNumber) } :
                   /\ req' = request
                   /\ resp' = o.resp
                   /\ lruItems' = o.items
                   /\ hits' = o.hits
                   /\ misses' = o.misses
                   /\ evictions' = IF o.evicted THEN evictions + 1 ELSE evictions
                   /\ mu' = IF o.hung THEN ServerThread ELSE mu
                   /\ pc' = IF o.hung THEN [pc EXCEPT ![ServerThread] = "get_cb"] ELSE pc
                   /\ cbLeft' = IF o.hung THEN [cbLeft EXCEPT ![ServerThread] = 1]
                                ELSE cbLeft
                   /\ recency' = IF o.resp.form = "raw" \/ o.stored
                                 THEN Touch(recency, v.abs) ELSE recency
                   /\ accessed' = IF o.hung THEN {} ELSE {v.abs}
                   /\ prevCached' = IF o.hung THEN prevCached
                                    ELSE [prevCached EXCEPT ![v.abs] = NotCached]
                   /\ getsDone' = IF o.hung THEN getsDone ELSE getsDone + 1
                   /\ calls' = calls + 1
                   /\ UNCHANGED <<fs, maxSize, muReaders, arg, ret, now, snap, reg>>
                   /\ UNCHANGED <<guardVars, auxVars>>

\* the tree the server starts on
InitialTree ==
    [q \in FsPaths |->
        IF q \in {W, W_aws} THEN Directory
        ELSE IF q \in {W_aws_c, W_env} THEN File(Secret, 0)
        ELSE IF q = W_a THEN File(<<"x">>, 0)
        ELSE IF q = W_b THEN File(<<"y", "y">>, 0)
        ELSE NoFile]

\* main: the configuration is resolved, the cache is created, the server
\* waits for its first request
InitServer ==
    /\ lruItems = <<>> /\ maxSize = DefaultCacheSize
    /\ hits = 0 /\ misses = 0 /\ evictions = 0
    /\ mu = 0 /\ muReaders = {}
    /\ pc = [t \in Threads |-> "idle"]
    /\ arg = [t \in Threads |-> NoArg]
    /\ ret = [t \in Threads |-> "none"]
    /\ cbLeft = [t \in Threads |-> 0]
    /\ now = 0 /\ calls = 0 /\ recency = <<>>
    /\ getsDone = 0 /\ snap = [t \in Threads |-> NoStats]
    /\ reg = [t \in Threads |-> 0]
    /\ gPhase = "serve" /\ gCwd = ServerCwd /\ gPath = <<>>
    /\ gResult = [p \in FsPaths |-> validatePath(ServerCwd, ServerRoots, ServerPatterns, p)]
    /\ gRoots = ServerRoots
    /\ gPatterns = ServerPatterns
    /\ fs = InitialTree
    /\ req = NoReq /\ resp = NoResp
    /\ prevCached = [q \in FsPaths |-> NotCached]
    /\ accessed = {}
    /\ AuxIdle

NextServer ==
    \/ Tick
    \/ handleReadContext
    \/ handleSearchContext
    \/ handleWriteFile
    \/ handleModifyFile
    \/ handleCopyFile
    \/ handleMoveFile
    \/ handleDeleteFile
    \/ handleGetFiles
    \/ handleCreateDirectory
    \/ handleAnalyzeCode
    \/ handleGetChunkCount

SpecServer == InitServer /\ [][NextServer]_vars

-----------------------------------------------------------------------------
(* Claims about the tool handlers (specification SpecServer) *)

\* C8: no tool call returns, searches, copies or moves the content of a file
\* whose own resolved path matches a blocked pattern, also when the file is
\* reached through a directory argument.
C8_BlockedFilesAreNeverAccessed ==
    \A p \in accessed : ~isBlockedPath(gPatterns, p)

\* the step is a read_context call on the regular file p that passed the guard
ReadContextOf(p) ==
    /\ calls' = calls + 1
    /\ req'.tool = "read_context"
    /\ req'.path = p
    /\ gResult[p].err = "none"
    /\ fs[p].kind = "file"

\* C9: read_context returns cached content only when the cached modification
\* time is not older than the on-disk one; when the on-disk time is strictly
\* newer (and the file is within the request's maxSize), the file is read from
\* disk and the cache entry is replaced by the new content and modification time.
C9_ReadContextRevalidatesByModTime ==
    [][ \A p \in FsPaths :
          ReadContextOf(p) =>
            /\ resp'.form = "raw" =>
                  /\ LruContains(lruItems, p)
                  /\ LruPeek(lruItems, p).mod >= fs[p].mtime
            /\ ( /\ LruContains(lruItems, p)
                 /\ fs[p].mtime > LruPeek(lruItems, p).mod
                 /\ Len(fs[p].content) <= req'.maxSize )
               => /\ resp'.form = "json"
                  /\ resp'.content = fs[p].content
                  /\ LruContains(lruItems', p)
                  /\ LruPeek(lruItems', p).content = fs[p].content
                  /\ LruPeek(lruItems', p).mod = fs[p].mtime ]_vars

\* C10: after a tool changed the content stored at P (or deleted P), at a
\* clock reading later than the one at which P was cached, the next
\* read_context(P) does not answer with the content that was cached for P
\* before that change while the file holds something else.
C10_NoStaleReadAfterChange ==
    [][ \A p \in FsPaths :
          (ReadContextOf(p) /\ prevCached[p].has
             /\ prevCached[p].at > prevCached[p].cachedAt)
          => ~( /\ resp'.form = "raw"
                /\ resp'.content = prevCached[p].content
                /\ resp'.content # fs[p].content ) ]_vars

\* validatePath rejects p
Rejected(p) == gResult[p].err # "none"

\* the error of the first rejected path argument of the call
RejectionOf(request) ==
    IF Rejected(request.path) THEN gResult[request.path].err
    ELSE gResult[request.destination].err

\* C20: a tool call whose path (or destination) validatePath rejects returns
\* a tool result with isError set that carries the rejection, touches no
\* file, leaves the filesystem, the cache entries, the recency order and the
\* hit/miss counters as they were and the server ready for the next request;
\* get_files answers normally with an error entry for each rejected name and
\* the result of reading for each other name.
C20_RejectedPathIsAnErrorResult ==
    [][ calls' = calls + 1 =>
          /\ ( /\ req'.tool \in {"read_context", "search_context", "write_file",
                                 "modify_file", "delete_file", "copy_file",
                                 "move_file"}
               /\ \/ Rejected(req'.path)
                  \/ /\ req'.tool \in {"copy_file", "move_file"}
                     /\ Rejected(req'.destination) )
             => /\ resp'.status = "error"
                /\ resp'.err = RejectionOf(req')
                /\ accessed' = {}
                /\ pc'[ServerThread] = "idle"
                /\ UNCHANGED <<fs, lruItems, recency, hits, misses>>
          /\ req'.tool = "get_files"
             => /\ resp'.status = "ok"
                /\ pc'[ServerThread] = "idle"
                /\ UNCHANGED <<fs, lruItems, recency, hits, misses>>
                /\ \A i \in 1..Len(req'.filePathList) :
                      LET fileName == req'.filePathList[i] IN
                      IF Rejected(fileName)
                      THEN /\ [fileName |-> fileName, err |-> gResult[fileName].err,
                                content |-> <<>>] \in resp'.body
                           /\ fileName \notin accessed'
                      ELSE \E r \in resp'.body :
                              /\ r.fileName = fileName
                              /\ r.err = ReadFileErr(fs, fileName, DefaultMaxSize)
                              /\ r.err = "none" => r.content = fs[fileName].content
      ]_vars

\* C20 witness: get_files has answered with an error entry for a rejected
\* name and the content of another file.
C20_Witness ==
    /\ req.tool = "get_files"
    /\ \E r1 \in resp.body, r2 \in resp.body :
          /\ Rejected(r1.fileName) /\ r1.err = gResult[r1.fileName].err
          /\ r2.err = "none" /\ r2.content # <<>>

\* C22: the cache is transparent to read_context: when a call on a regular
\* file was served from disk and the next call, with the same arguments and
\* the file unchanged, is served from the cache, the second result text
\* (content together with its metadata) is the same as the first.
C22_CacheIsTransparent ==
    [][ \A p \in FsPaths :
          ( /\ ReadContextOf(p)
            /\ req' = req
            /\ resp.form = "json"
            /\ resp'.form = "raw" )
          => resp' = resp ]_vars

\* C26: whenever the on-disk size of a regular file exceeds the maxSize of a
\* read_context request, the response is the chunked result for the
\* requested chunk and never the whole file, whatever the cache holds for
\* the path from earlier requests made with a larger maxSize.
C26_OversizeFileIsChunked ==
    [][ \A p \in FsPaths :
          ( /\ ReadContextOf(p)
            /\ Len(fs[p].content) > req'.maxSize
            /\ resp'.status # "hung" )
          => /\ resp'.form = "chunk"
             /\ \E k \in 0..1 :
                   resp'.content = ReadChunk(fs, p, k, DefaultChunkSize)[1] ]_vars

\* C28: only read_context on a regular file whose size does not exceed
\* maxSize looks up or inserts into the cache; every other tool call,
\* read_context on a directory included, leaves the cache entries, the
\* recency order and the hit, miss and eviction counters unchanged.
C28_OnlyInLimitFileReadsUseTheCache ==
    [][ ( /\ calls' = calls + 1
          /\ ~ \E p \in FsPaths :
                  ReadContextOf(p) /\ Len(fs[p].content) <= req'.maxSize )
        => UNCHANGED <<lruItems, recency, hits, misses, evictions>> ]_vars

\* C29: the hits counter that cache_stats reports counts the read_context
\* requests whose response was served from cached content: a request adds
\* one to it exactly when its response is the cached content, and a lookup
\* whose entry the handler rejects for an older modification time adds
\* nothing.
C29_HitsCountServedFromCache ==
    [][ \A p \in FsPaths :
          (ReadContextOf(p) /\ resp'.status # "hung")
          => hits' = hits + (IF resp'.form = "raw" THEN 1 ELSE 0) ]_vars

\* C30: for every chunkSize argument, zero and negative numbers included,
\* get_chunk_count returns a tool result (a count or an isError result) and
\* the server is ready for the next request.
C30_GetChunkCountAlwaysAnswers ==
    [][ (calls' = calls + 1 /\ req'.tool = "get_chunk_count")
        => /\ resp'.status \in {"ok", "error"}
           /\ pc'[ServerThread] = "idle" ]_vars

-----------------------------------------------------------------------------
(* main: the resolution of log-dir, log-level, root-dir and                *)
(* blocked-patterns from the command line, the environment and defaults    *)

Settings == {"log-dir", "log-level", "root-dir", "blocked-patterns"}

\* the default each flag is declared with (flag.String)
FlagDefault(s) == IF s = "log-level" THEN "info" ELSE ""

\* the value the program uses when neither flag nor variable decides
DefaultValue(s) ==
    CASE s = "log-dir"          -> "~/go-mcp-file-context-server/logs"
      [] s = "log-level"        -> "info"
      [] s = "root-dir"         -> ""
      [] s = "blocked-patterns" -> ".aws/*,.env,.mcp_env"

\* command lines and environments: the flag absent or given with the empty
\* string, with the value that is also its default, or with another value;
\* the variable unset, set to the empty string or set to a value
CmdlineChoices ==
    {[given |-> FALSE, value |-> ""]}
        \cup {[given |-> TRUE, value |-> v] : v \in {"", "info", "f"}}
EnvChoices ==
    {[set |-> FALSE, value |-> ""]}
        \cup {[set |-> TRUE, value |-> v] : v \in {"", "e"}}

Unresolved == [value |-> "", source |-> "unresolved"]

\* flag.Parse: the flag's value, or its declared default when it is absent
FlagValue(args, s) == IF args[s].given THEN args[s].value ELSE FlagDefault(s)

\* os.Getenv and os.LookupEnv
Getenv(env, s) == IF env[s].set THEN env[s].value ELSE ""
LookupEnv(env, s) == env[s].set

\* log-dir and root-dir: flag value if not "", else variable if not "", else default
resolvedByEmptiness(args, env, s) ==
    IF FlagValue(args, s) # ""
    THEN [value |-> FlagValue(args, s), source |-> "flag"]
    ELSE IF Getenv(env, s) # ""
    THEN [value |-> Getenv(env, s), source |-> "environment"]
    ELSE [value |-> DefaultValue(s), source |-> "default"]

\* log-level: a flag value other than "info" means the flag was set
resolvedLogLevel(args, env) ==
    IF FlagValue(args, "log-level") # "info"
    THEN [value |-> FlagValue(args, "log-level"), source |-> "flag"]
    ELSE IF Getenv(env, "log-level") # ""
    THEN [value |-> Getenv(env, "log-level"), source |-> "environment"]
    ELSE [value |-> "info", source |-> "default"]

\* blocked-patterns: flag value if not "", else the variable if it exists
resolvedBlockedPatterns(args, env) ==
    IF FlagValue(args, "blocked-patterns") # ""
    THEN [value |-> FlagValue(args, "blocked-patterns"), source |-> "flag"]
    ELSE IF LookupEnv(env, "blocked-patterns")
    THEN [value |-> env["blocked-patterns"].value, source |-> "environment"]
    ELSE [value |-> DefaultValue("blocked-patterns"), source |-> "default"]

Resolved(args, env, s) ==
    CASE s = "log-level"        -> resolvedLogLevel(args, env)
      [] s = "blocked-patterns" -> resolvedBlockedPatterns(args, env)
      [] OTHER                  -> resolvedByEmptiness(args, env, s)

\* main, from flag.Parse to the parsed blocked patterns
ResolveConfig ==
    /\ \A s \in Settings : config[s].source = "unresolved"
    /\ config' = [s \in Settings |-> Resolved(cmdline, environ, s)]
    /\ UNCHANGED <<cmdline, environ, chunk, detail, stdio>>
    /\ UNCHANGED <<cacheVars, guardVars, srvVars>>

\* the process starts with some command line and some environment
InitConfig ==
    /\ CacheIdleInit
    /\ GuardIdle
    /\ SrvIdle
    /\ cmdline \in [Settings -> CmdlineChoices]
    /\ environ \in [Settings -> EnvChoices]
    /\ config = [s \in Settings |-> Unresolved]
    /\ ChunkIdle
    /\ DetailIdle
    /\ StdioIdle

NextConfig == ResolveConfig

SpecConfig == InitConfig /\ [][NextConfig]_vars

\* C21: for each of log-dir, log-level, root-dir and blocked-patterns the
\* resolved value is the flag's value whenever the flag is on the command
\* line, whatever its value and whatever the environment holds; otherwise
\* the environment variable's value when it is set; otherwise the default.
C21_FlagThenEnvironmentThenDefault ==
    \A s \in Settings :
        config[s].source # "unresolved"
        => config[s].value =
              IF cmdline[s].given THEN cmdline[s].value
              ELSE IF environ[s].set THEN environ[s].value
              ELSE DefaultValue(s)

-----------------------------------------------------------------------------
(* package analysis: GetChunkCount and ReadChunk as functions of the file  *)
(* size, the chunk size and the chunk number                               *)

MaxFileLen == 4

\* the files: every content of up to MaxFileLen bytes
ChunkContents == UNION { [1..n -> Chars] : n \in 0..MaxFileLen }
\* the chunk sizes: small ones and the largest two of the integer type
ChunkSizes == { 1, 2, 3, MaxWord - 1, MaxWord }
\* the chunk numbers: up to one past the last chunk of the longest file
ChunkNumbers == 0..(MaxFileLen + 1)

\* a filesystem that holds the one file
OneFile(content) == [q \in {W_a} |-> File(content, 0)]

InitChunk ==
    /\ CacheIdleInit
    /\ GuardIdle
    /\ SrvIdle
    /\ CfgIdle
    /\ DetailIdle
    /\ StdioIdle
    /\ chunk \in [content : ChunkContents, chunkSize : ChunkSizes, op : {"none"},
                  chunkNumber : {0}, data : {<<>>}, count : {0}]

\* count, err := GetChunkCount(path, chunkSize)
CallGetChunkCount ==
    /\ chunk.op = "none"
    /\ \E r \in { GetChunkCount(OneFile(chunk.content), W_a, chunk.chunkSize) } :
          chunk' = [chunk EXCEPT !.op = "GetChunkCount", !.count = r.count]
    /\ UNCHANGED <<cacheVars, guardVars, srvVars, cfgVars, detail, stdio>>

\* content, totalChunks, err := ReadChunk(path, chunkNumber, chunkSize)
CallReadChunk ==
    /\ chunk.op = "none"
    /\ \E k \in ChunkNumbers :
          \E r \in { ReadChunk(OneFile(chunk.content), W_a, k, chunk.chunkSize) } :
             chunk' = [chunk EXCEPT !.op = "ReadChunk", !.chunkNumber = k,
                                    !.data = r[1], !.count = r[2]]
    /\ UNCHANGED <<cacheVars, guardVars, srvVars, cfgVars, detail, stdio>>

NextChunk == CallGetChunkCount \/ CallReadChunk

SpecChunk == InitChunk /\ [][NextChunk]_vars

\* ceil(s / c) for c >= 1, in the integers
CeilDiv(s, c) == (s + c - 1) \div c

\* C25: for a file of s bytes and a chunk size c >= 1, GetChunkCount
\* returns ceil(s/c); ReadChunk(k, c) returns the total ceil(s/c) and, for
\* k < ceil(s/c), the bytes [k*c, min((k+1)*c, s)) of the file, otherwise
\* empty content (so the chunks 0..ceil(s/c)-1 concatenate to the file).
C25_ChunksPartitionTheFile ==
    LET s == Len(chunk.content)
        c == chunk.chunkSize
        k == chunk.chunkNumber
        upTo == IF (k + 1) * c < s THEN (k + 1) * c ELSE s
    IN  /\ chunk.op # "none" => chunk.count = CeilDiv(s, c)
        /\ chunk.op = "ReadChunk" =>
              chunk.data = IF k < CeilDiv(s, c)
                           THEN SubSeq(chunk.content, k * c + 1, upTo)
                           ELSE <<>>

-----------------------------------------------------------------------------
(* mcp.Server.Run: a goroutine reads stdin line by line and hands each     *)
(* line over the unbuffered channel lines, the end of the input over the   *)
(* unbuffered channel errors; the main loop selects on both and on a timer *)

MaxLines == 3

\* what a line of input holds: only white space; a request (it carries an
\* id); a notification (no id); JSON that carries an id and that
\* json.Unmarshal rejects (a member of the wrong type)
LineKinds == {"blank", "request", "notification", "mistyped"}

NoLine == [kind |-> "none", id |-> 0, nl |-> FALSE]

\* the inputs: up to MaxLines lines, the i-th with id i where it carries
\* one; only the last line may lack its newline
StdinChoices ==
    UNION { { in \in [1..n -> [kind : LineKinds, id : 1..MaxLines, nl : BOOLEAN]] :
                \A i \in 1..n : in[i].id = i /\ (i < n => in[i].nl) } :
            n \in 0..MaxLines }

\* how a handler called for a request ends: it returns a result, it never
\* returns (Cache.Get on an expired entry) or it panics (a division by zero)
HandlerOutcomes == {"result", "hang", "panic"}

\* reader.ReadString('\n'): the next line with its newline; at the end of
\* the input what is left with the error the input ends with
ReadString(stdin, ends) ==
    IF stdin = <<>> THEN [line |-> NoLine, err |-> ends, rest |-> <<>>]
    ELSE IF Head(stdin).nl THEN [line |-> Head(stdin), err |-> "none", rest |-> Tail(stdin)]
    ELSE [line |-> Head(stdin), err |-> ends, rest |-> <<>>]

\* the reader goroutine after ReadString: which send it blocks on
ReaderNextDroppingPartial(line, err) ==
    IF err = "none" THEN "send_line"
    ELSE IF err = "EOF" THEN "send_eof"
    ELSE "send_err"
ReaderNext(line, err) ==
    IF err = "none" THEN "send_line"
    ELSE IF err = "EOF" THEN (IF line # NoLine THEN "send_partial" ELSE "send_eof")
    ELSE "send_err"

\* trimLine: white space and the newline are cut off both ends
trimLine(line) == IF line.kind = "blank" THEN NoLine ELSE [line EXCEPT !.nl = FALSE]

NoResponse == [id |-> 0, kind |-> "none"]

\* handleMessage for a handler that returns: a parse error without an id,
\* nothing for a notification, the response with the request's id
handleMessage(line) ==
    IF line.kind = "mistyped" THEN [id |-> 0, kind |-> "Parse error"]
    ELSE IF line.kind = "notification" THEN NoResponse
    ELSE [id |-> line.id, kind |-> "result"]

\* sendResponse: one line on stdout
sendResponse(stdout, response) ==
    IF response = NoResponse THEN stdout ELSE Append(stdout, response)

InitStdio ==
    /\ CacheIdleInit
    /\ GuardIdle
    /\ SrvIdle
    /\ CfgIdle
    /\ ChunkIdle
    /\ DetailIdle
    /\ \E in \in StdinChoices, ends \in {"EOF", "failure"} :
          stdio = [input |-> in, ends |-> ends, stdin |-> in,
                   reader |-> "read", line |-> NoLine,
                   receivedData |-> FALSE, initialTimeout |-> "30s",
                   run |-> "select", err |-> "none",
                   stdout |-> <<>>, received |-> <<>>]

\* the reader goroutine: line, err := reader.ReadString('\n')
ReaderRead ==
    /\ stdio.reader = "read"
    /\ \E r \in { ReadString(stdio.stdin, stdio.ends) } :
          stdio' = [stdio EXCEPT !.stdin = r.rest, !.line = r.line,
                                 !.reader = ReaderNext(r.line, r.err)]
    /\ UNCHANGED <<cacheVars, guardVars, srvVars, cfgVars, chunk, detail>>

\* case line := <-lines: the reader's send and the main loop's receive
\* meet; the line is trimmed and, unless empty, handled to the end
ReceiveLine ==
    /\ stdio.run = "select"
    /\ stdio.reader \in {"send_line", "send_partial"}
    /\ \E outcome \in HandlerOutcomes :
          LET line == trimLine(stdio.line)
              returns == line.kind # "request" \/ outcome = "result"
          IN  stdio' =
                [stdio EXCEPT
                   !.reader = IF stdio.reader = "send_line" THEN "read" ELSE "send_eof",
                   !.line = NoLine,
                   !.receivedData = TRUE,
                   !.received = Append(stdio.received, stdio.line),
                   !.stdout = IF line = NoLine \/ ~returns THEN stdio.stdout
                              ELSE sendResponse(stdio.stdout, handleMessage(line)),
                   !.run = IF line = NoLine \/ returns THEN "select"
                           ELSE IF outcome = "hang" THEN "hung" ELSE "aborted"]
    /\ UNCHANGED <<cacheVars, guardVars, srvVars, cfgVars, chunk, detail>>

\* case err := <-errors: Run returns
ReceiveError ==
    /\ stdio.run = "select"
    /\ stdio.reader \in {"send_eof", "send_err"}
    /\ stdio' = [stdio EXCEPT
                   !.reader = "done",
                   !.run = "returned",
                   !.err = IF stdio.reader = "send_err" THEN "read error"
                           ELSE IF stdio.receivedData THEN "nil"
                           ELSE "stdin closed before receiving any data"]
    /\ UNCHANGED <<cacheVars, guardVars, srvVars, cfgVars, chunk, detail>>

\* case <-initialTimeout: the timer fires once; without data a 24-hour timer
\* replaces it
TimerExpires ==
    /\ stdio.run = "select"
    /\ stdio.initialTimeout # "spent"
    /\ stdio' = [stdio EXCEPT !.initialTimeout =
                                 IF stdio.receivedData THEN "spent" ELSE "24h"]
    /\ UNCHANGED <<cacheVars, guardVars, srvVars, cfgVars, chunk, detail>>

NextStdio == ReaderRead \/ ReceiveLine \/ ReceiveError \/ TimerExpires

SpecStdio == InitStdio /\ [][NextStdio]_vars

\* C24: the lines are handled one at a time in arrival order; a line that
\* carries an id produces exactly one response, with that id, written
\* before the next line is taken; a notification and a blank line produce
\* no response.
C24_OneResponsePerRequestInOrder ==
    [][ ReceiveLine =>
          /\ stdio'.received = SubSeq(stdio.input, 1, Len(stdio.received) + 1)
          /\ IF stdio.line.kind \in {"request", "mistyped"}
             THEN /\ Len(stdio'.stdout) = Len(stdio.stdout) + 1
                  /\ SubSeq(stdio'.stdout, 1, Len(stdio.stdout)) = stdio.stdout
                  /\ stdio'.stdout[Len(stdio'.stdout)].id = stdio.line.id
             ELSE stdio'.stdout = stdio.stdout ]_vars

\* C27: when Run returns on the end of the input, every line read before
\* it, a last line without a newline included, has been taken by the main
\* loop; Run then returns nil if at least one line was received and an
\* error if none was; the expiry of the initial timer never makes Run
\* return.
C27_RunReturnsAfterTheLastLine ==
    [][ /\ (stdio.run # "returned" /\ stdio'.run = "returned" /\ stdio.ends = "EOF")
           => /\ stdio'.received = stdio.input
              /\ stdio'.err = IF stdio.input # <<>> THEN "nil"
                              ELSE "stdin closed before receiving any data"
        /\ TimerExpires => stdio'.run = "select" /\ stdio'.err = "none" ]_vars

\* Run returned nil after an input of several lines whose last line has no
\* newline, the initial timer having expired before the first line
C27_Witness ==
    /\ stdio.run = "returned"
    /\ stdio.err = "nil"
    /\ stdio.ends = "EOF"
    /\ Len(stdio.input) > 1
    /\ ~stdio.input[Len(stdio.input)].nl
    /\ stdio.initialTimeout = "24h"

====
